---- MODULE Spec2Model ----
(***************************************************************************)
(* A model of the httpretty printer: body capture (printer.go), the        *)
(* recovered extension calls (filter, body filter, formatters), the cycle  *)
(* with its printer and flush strategies, and the Logger's mutex.         *)
(*                                                                         *)
(* Bytes of a body are identified by their offset in the original stream:  *)
(* a byte string is a sequence of half-open offset ranges <<lo, hi>>, kept *)
(* normalised (no empty range, adjacent ranges merged), so that the sizes  *)
(* of the source (4096, 5000, 9846 ...) can be used as they are.           *)
(***************************************************************************)
EXTENDS Integers, Sequences, FiniteSets, TLC

\* printer.go: const maxDefaultUnknownReadable = 4096
maxDefaultUnknownReadable == 4096

\* size of the buffer of bufio.NewReader(r) (bufio's default)
defaultBufSize == 4096

\* longest list of Logger.Formatters explored
MaxFormatters == 2

Min(a, b) == IF a < b THEN a ELSE b
Max(a, b) == IF a > b THEN a ELSE b

-----------------------------------------------------------------------------
(* Byte strings *)

NoBytes == <<>>

Range(lo, hi) == IF lo < hi THEN << <<lo, hi>> >> ELSE <<>>

Cat(x, y) ==
  IF x = <<>> THEN y
  ELSE IF y = <<>> THEN x
  ELSE IF x[Len(x)][2] = y[1][1]
       THEN SubSeq(x, 1, Len(x) - 1) \o << <<x[Len(x)][1], y[1][2]>> >> \o Tail(y)
       ELSE x \o y

RECURSIVE Size(_)
Size(x) == IF x = <<>> THEN 0 ELSE (x[1][2] - x[1][1]) + Size(Tail(x))

-----------------------------------------------------------------------------
(* Output text: every print call produces one text, a record of the format *)
(* string k and its arguments (numbers a and b, bytes d, fault e).         *)

Text(k, a, b, d, e) == [k |-> k, a |-> a, b |-> b, d |-> d, e |-> e]

Msg(k) == Text(k, 0, 0, NoBytes, "")

TooLongDeclared(length, ceiling) ==
  Text("* body is too long (%d bytes) to print, skipping (longer than %d bytes)", length, ceiling, NoBytes, "")

TooLongUnknown(n) ==
  Text("* body is too long, skipping (contains more than %d bytes)", n, 0, NoBytes, "")

CannotReadUnknown(n) ==
  Text("* cannot read body: %v (%d bytes read)", n, 0, NoBytes, "read error")

CannotRead == Text("* cannot read body: %v", 0, 0, NoBytes, "read error")

\* println(string(body)); a is the index of the formatter that produced it, 0 when raw
BodyText(body, formatter) == Text("body", formatter, 0, body, "")

CannotFormat(body, fault) == Text("* body cannot be formatted: %v\n%s", 0, 0, body, fault)

MatchPanicText == Text("* panic while testing body format: %v", 0, 0, NoBytes, "panic")

BodyFilterPanicText == Text("* panic while filtering body: %v", 0, 0, NoBytes, "panic")

BodyFilterErrorText(dir) ==
  Text(IF dir = "req" THEN "* error on request body filter: %v" ELSE "* error on response body filter: %v",
       0, 0, NoBytes, "error")

-----------------------------------------------------------------------------
(* The original body stream, an io.ReadCloser: offsets pos..end are still  *)
(* unread; a Read returns at most chunk bytes; an eager stream reports the *)
(* end together with the last bytes, a lazy one on the next Read; a        *)
(* failing stream ends with a read error instead of io.EOF.                *)

Stream(n, chunk, eager, fail) ==
  [pos |-> 0, end |-> n, chunk |-> chunk, eager |-> eager, fail |-> fail, closed |-> 0]

EndError(s) == IF s.fail THEN "error" ELSE "EOF"

\* r.Read(p) with len(p) = k
StreamRead(s, k) ==
  LET n == Min(Min(k, s.chunk), s.end - s.pos)
      atEnd == s.pos + n = s.end
  IN [n |-> n,
      err |-> IF k > 0 /\ atEnd /\ (n = 0 \/ s.eager) THEN EndError(s) ELSE "nil",
      s |-> [s EXCEPT !.pos = @ + n]]

\* ioutil.ReadAll(r): every remaining byte, and the error if it is not io.EOF
StreamReadAll(s) ==
  [data |-> Range(s.pos, s.end),
   err |-> IF s.fail THEN "error" ELSE "nil",
   s |-> [s EXCEPT !.pos = s.end]]

StreamClose(s) == [s EXCEPT !.closed = @ + 1]

\* a capture read that takes whatever the stream delivers, whatever len(pb)
BufioReadUnbounded(s, k) == StreamRead(s, s.chunk)

\* shortReader := bufio.NewReader(r); shortReader.Read(pb) with len(pb) = k:
\* a read of at least the buffer size goes straight to r; a smaller one fills
\* the reader's buffer with one Read of r and copies what fits into pb, and
\* reports no error as long as it returns a byte.
BufioRead(s, k) ==
  IF k = 0 THEN [n |-> 0, err |-> "nil", s |-> s]
  ELSE IF k >= defaultBufSize THEN StreamRead(s, k)
  ELSE LET r == StreamRead(s, defaultBufSize)
       IN IF r.n = 0 THEN r
          ELSE [n |-> Min(k, r.n), err |-> "nil", s |-> r.s]

-----------------------------------------------------------------------------
(* Body: what the Body field of a request or response yields when read:    *)
(* the bytes held in memory, then (orig) whatever the original stream      *)
(* still holds. close tells what Close() closes.                           *)

OriginalBody == [mem |-> NoBytes, orig |-> TRUE, close |-> "orig"]

\* ioutil.NopCloser(&buf)
NopCloser(buf) == [mem |-> buf, orig |-> FALSE, close |-> "nop"]

\* newBodyReaderBuf(buf, body): io.MultiReader(buf, body), closing body
newBodyReaderBuf(buf) == [mem |-> buf, orig |-> TRUE, close |-> "orig"]

\* what the consumer of the message reads from Body until the end
Readable(body, s) == Cat(body.mem, IF body.orig THEN Range(s.pos, s.end) ELSE NoBytes)

-----------------------------------------------------------------------------
(* Formatters. A formatter is a record of how its Match and its Format     *)
(* behave: match is "json" (JSONFormatter.Match), "yes", "no" or "panic";  *)
(* format is "ok", "error" or "panic". A failing Format may have written   *)
(* part of its output to dst before it failed.                             *)

MatchKinds == {"json", "yes", "no", "panic"}
FormatKinds == {"ok", "error", "panic"}
FormatterKinds == [match : MatchKinds, format : FormatKinds]

ContentTypes == {"application/json", "application/vnd.api+json", "text/plain; charset=utf-8", ""}

\* mime.ParseMediaType(contentType): the media type without its parameters
ParseMediaType(contentType) ==
  CASE contentType = "application/json" -> "application/json"
    [] contentType = "application/vnd.api+json" -> "application/vnd.api+json"
    [] contentType = "text/plain; charset=utf-8" -> "text/plain"
    [] OTHER -> ""

\* (j *JSONFormatter) Match
JSONFormatterMatch(mediatype) == mediatype = "application/json"

Match(f, mediatype) ==
  CASE f.match = "json" -> JSONFormatterMatch(mediatype)
    [] f.match = "yes" -> TRUE
    [] OTHER -> FALSE

\* a recover that lets a Match that panicked count as a match
safeBodyMatchPanicMatches(f, mediatype) ==
  IF f.match = "panic"
  THEN [ok |-> TRUE, out |-> <<MatchPanicText>>]
  ELSE [ok |-> Match(f, mediatype), out |-> <<>>]

\* safeBodyMatch: a panic of Match is recovered, reported, and counts as no match
safeBodyMatch(f, mediatype) ==
  IF f.match = "panic"
  THEN [ok |-> FALSE, out |-> <<MatchPanicText>>]
  ELSE [ok |-> Match(f, mediatype), out |-> <<>>]

\* a recover that drops the panic of Format instead of returning it
safeBodyFormatDropsPanic(f) ==
  CASE f.format = "ok" -> "nil"
    [] f.format = "error" -> "error"
    [] OTHER -> "nil"

\* safeBodyFormat: the error of Format, a panic being turned into an error
safeBodyFormat(f) ==
  CASE f.format = "ok" -> "nil"
    [] f.format = "error" -> "error"
    [] OTHER -> "panic: panic"

Call(op, i) == [op |-> op, i |-> i]

\* the loop over p.logger.Formatters of printBodyReader, from formatter i on
RECURSIVE formatLoop(_, _, _, _)
formatLoop(fs, i, mediatype, body) ==
  IF i > Len(fs)
  THEN [out |-> <<BodyText(body, 0)>>, calls |-> <<>>]
  ELSE LET m == safeBodyMatch(fs[i], mediatype)
           rest == formatLoop(fs, i + 1, mediatype, body)
           err == safeBodyFormat(fs[i])
       IN IF ~m.ok
          THEN [out |-> m.out \o rest.out, calls |-> <<Call("Match", i)>> \o rest.calls]
          ELSE IF err # "nil"
          THEN [out |-> <<CannotFormat(body, err)>>,
                calls |-> <<Call("Match", i), Call("Format", i)>>]
          ELSE [out |-> <<BodyText(body, i)>>,
                calls |-> <<Call("Match", i), Call("Format", i)>>]

\* a loop that goes on to the later formatters after a Format that succeeded
printBodyReaderLastMatch(fs, contentType, data, err) ==
  IF err # "nil"
  THEN [out |-> <<CannotRead>>, calls |-> <<>>]
  ELSE LET first == formatLoop(fs, 1, ParseMediaType(contentType), data)
           n == IF first.calls = <<>> THEN 0 ELSE first.calls[Len(first.calls)].i
           later == formatLoop(fs, n + 1, ParseMediaType(contentType), data)
       IN IF n = 0 \/ n >= Len(fs) \/ first.calls[Len(first.calls)].op # "Format"
          THEN first
          ELSE [out |-> later.out, calls |-> first.calls \o later.calls]

\* printBodyReader(contentType, r), r yielding data and then err
printBodyReader(fs, contentType, data, err) ==
  IF err # "nil"
  THEN [out |-> <<CannotRead>>, calls |-> <<>>]
  ELSE formatLoop(fs, 1, ParseMediaType(contentType), data)

-----------------------------------------------------------------------------
(* Body filter: "nil" (none set), or what it returns: keep / skip, with or *)
(* without an error, or "panic".                                           *)

BodyFilterKinds == {"nil", "keep", "skip", "keepErr", "skipErr", "panic"}

\* (l *Logger) getBodyFilter
getBodyFilter(l) == l.bodyFilter

\* a body filter whose error cancels its skip
checkBodyFilteredErrorKeeps(l) ==
  LET f == getBodyFilter(l)
  IN CASE f = "nil" -> [skip |-> FALSE, err |-> FALSE, out |-> <<>>]
       [] f = "panic" -> [skip |-> FALSE, err |-> FALSE, out |-> <<BodyFilterPanicText>>]
       [] OTHER -> [skip |-> f = "skip", err |-> f \in {"keepErr", "skipErr"}, out |-> <<>>]

\* a body filter whose panic skips the body
checkBodyFilteredPanicSkips(l) ==
  LET f == getBodyFilter(l)
  IN CASE f = "nil" -> [skip |-> FALSE, err |-> FALSE, out |-> <<>>]
       [] f = "panic" -> [skip |-> TRUE, err |-> FALSE, out |-> <<BodyFilterPanicText>>]
       [] OTHER -> [skip |-> f \in {"skip", "skipErr"}, err |-> f \in {"keepErr", "skipErr"}, out |-> <<>>]

\* checkBodyFiltered: a panic is recovered and reported, and the zero
\* values (do not skip, no error) are returned
checkBodyFiltered(l) ==
  LET f == getBodyFilter(l)
  IN CASE f = "nil" -> [skip |-> FALSE, err |-> FALSE, out |-> <<>>]
       [] f = "panic" -> [skip |-> FALSE, err |-> FALSE, out |-> <<BodyFilterPanicText>>]
       [] OTHER -> [skip |-> f \in {"skip", "skipErr"}, err |-> f \in {"keepErr", "skipErr"}, out |-> <<>>]

-----------------------------------------------------------------------------
(* Body capture. Every operator returns the texts printed (out), the new   *)
(* value of the Body field (body), the original stream afterwards (s), the *)
(* formatter calls made (calls) and whether it ended in a runtime panic.   *)

Captured(out, body, s, calls) ==
  [out |-> out, body |-> body, s |-> s, calls |-> calls, panicked |-> FALSE]

Untouched(out, body, s) == Captured(out, body, s, <<>>)

\* printBodyUnknownLength(contentType, maxLength, r); body is the Body field
\* the caller keeps when nil is returned
printBodyUnknownLength(l, contentType, maxLength, body, s) ==
  IF maxLength < 0
  THEN \* make([]byte, maxLength) panics: len out of range
       [out |-> <<>>, body |-> body, s |-> s, calls |-> <<>>, panicked |-> TRUE]
  ELSE
  LET ml == IF maxLength = 0 THEN maxDefaultUnknownReadable ELSE maxLength
      r == BufioRead(s, ml)
      pb == Range(s.pos, s.pos + r.n)
      pr == printBodyReader(l.Formatters, contentType, pb, "nil")
  IN IF r.n = 0 /\ r.err = "EOF"
     THEN Untouched(<<>>, body, r.s)
     ELSE IF r.err # "nil" /\ r.err # "EOF"
     THEN Untouched(<<CannotReadUnknown(r.n)>>,
                    IF r.n > 0 THEN newBodyReaderBuf(pb) ELSE body, r.s)
     ELSE IF r.err # "EOF"
     THEN Untouched(<<TooLongUnknown(r.n)>>, newBodyReaderBuf(pb), r.s)
     ELSE Captured(pr.out, newBodyReaderBuf(pb), r.s, pr.calls)

\* a declared-length capture that forgets the deferred Body.Close()
printBodyDeclaredLengthNoClose(l, contentType, s) ==
  LET all == StreamReadAll(s)
      pr == printBodyReader(l.Formatters, contentType, all.data, all.err)
  IN Captured(pr.out, NopCloser(all.data), all.s, pr.calls)

\* the tee / ReadAll / NopCloser capture of a body of declared length
printBodyDeclaredLength(l, contentType, s) ==
  LET all == StreamReadAll(s)
      pr == printBodyReader(l.Formatters, contentType, all.data, all.err)
  IN Captured(pr.out, NopCloser(all.data), StreamClose(all.s), pr.calls)

declaredTooLongOrEqual(ceiling, length) == ceiling > 0 /\ length >= ceiling

\* the test made before a body is read:
\* p.logger.MaxResponseBody > 0 && resp.ContentLength > p.logger.MaxResponseBody
declaredTooLong(ceiling, length) == ceiling > 0 /\ length > ceiling

\* printResponseBodyOut(resp)
printResponseBodyOut(l, resp, s) ==
  LET bf == checkBodyFiltered(l)
      pre == bf.out \o (IF bf.err THEN <<BodyFilterErrorText("resp")>> ELSE <<>>)
      rest == IF declaredTooLong(l.MaxResponseBody, resp.ContentLength)
              THEN Untouched(<<TooLongDeclared(resp.ContentLength, l.MaxResponseBody)>>, resp.Body, s)
              ELSE IF resp.ContentLength = -1
              THEN printBodyUnknownLength(l, resp.ContentType, l.MaxResponseBody, resp.Body, s)
              ELSE printBodyDeclaredLength(l, resp.ContentType, s)
  IN IF resp.ContentLength = 0 THEN Untouched(<<>>, resp.Body, s)
     ELSE IF bf.skip THEN Untouched(pre, resp.Body, s)
     ELSE [rest EXCEPT !.out = pre \o @]

\* printRequestBody(req), req.Body not nil
printRequestBody(l, req, s) ==
  LET bf == checkBodyFiltered(l)
      pre == bf.out \o (IF bf.err THEN <<BodyFilterErrorText("req")>> ELSE <<>>)
      rest == IF declaredTooLong(l.MaxRequestBody, req.ContentLength)
              THEN Untouched(<<TooLongDeclared(req.ContentLength, l.MaxRequestBody)>>, req.Body, s)
              ELSE IF req.ContentLength > 0
              THEN printBodyDeclaredLength(l, req.ContentType, s)
              ELSE printBodyUnknownLength(l, req.ContentType, l.MaxRequestBody, req.Body, s)
  IN IF bf.skip THEN Untouched(pre, req.Body, s)
     ELSE [rest EXCEPT !.out = pre \o @]

-----------------------------------------------------------------------------
(* The printer. A printer is its flush strategy (snapshot of the Logger's  *)
(* when it was made) and its buffer, a sequence of texts. What a cycle     *)
(* does with it is a sequence of operations, each of which takes the       *)
(* Logger's mutex: newPrinter, getFilter, print (print / println / printf) *)
(* and flush.                                                              *)

Flushers == {"NoBuffer", "OnReady", "OnEnd"}

Op(op, text) == [op |-> op, text |-> text]
NewPrinterOp == Op("newPrinter", Msg(""))
GetFilterOp == Op("getFilter", Msg(""))
FlushOp == Op("flush", Msg(""))
PrintOp(text) == Op("print", text)

Prints(texts) == [i \in 1..Len(texts) |-> PrintOp(texts[i])]

\* the texts of the print operations among ops
PrintedTexts(ops) ==
  LET prints == SelectSeq(ops, LAMBDA o : o.op = "print")
  IN [i \in 1..Len(prints) |-> prints[i].text]

\* the printer of PrintRequest / PrintResponse and of a cycle before newPrinter
\* returns: printer{logger: l}, whose flusher is the zero value NoBuffer
ZeroPrinter == [flusher |-> "NoBuffer", buf |-> <<>>]

\* (p *printer) flush: nothing when not buffering
flush(p) == IF p.flusher = "NoBuffer" THEN <<>> ELSE <<FlushOp>>

\* a maybeOnReady that flushes whenever the printer buffers
maybeOnReadyOrOnEnd(p) == flush(p)

\* (p *printer) maybeOnReady
maybeOnReady(p) == IF p.flusher = "OnReady" THEN flush(p) ELSE <<>>

-----------------------------------------------------------------------------
(* Filter: "nil" (none set), or what it returns: pass / skip, with or      *)
(* without an error, or "panic".                                           *)

FilterKinds == {"nil", "pass", "skip", "passErr", "skipErr", "panic"}

CannotFilterText(fault) == Text("* cannot filter request: %s: %s", 0, 0, NoBytes, fault)

NullRequestText == Text("> %s", 0, 0, NoBytes, "error: null request")

NullResponseText == Text("< %s", 0, 0, NoBytes, "error: null response")

\* safeFilter: the filter's results, a panic being turned into an error
safeFilter(filter) ==
  CASE filter = "panic" -> [skip |-> FALSE, err |-> "panic: panic"]
    [] filter \in {"pass", "skip"} -> [skip |-> filter = "skip", err |-> "nil"]
    [] OTHER -> [skip |-> filter = "skipErr", err |-> "error"]

\* the other way round: a filter that failed still decides
checkFilterTrustsFailedFilter(filter, present) ==
  IF ~present THEN [skip |-> TRUE, out |-> <<NullRequestText>>, called |-> FALSE]
  ELSE IF filter = "nil" THEN [skip |-> FALSE, out |-> <<>>, called |-> FALSE]
  ELSE LET r == safeFilter(filter)
       IN [skip |-> r.skip \/ filter = "panic",
           out |-> IF r.err # "nil" /\ ~r.skip /\ filter # "panic"
                   THEN <<CannotFilterText(r.err)>> ELSE <<>>,
           called |-> TRUE]

\* a checkFilter that runs the filter before it looks at the request
checkFilterBeforeNil(filter, present) ==
  IF filter = "nil"
  THEN [skip |-> ~present, out |-> IF present THEN <<>> ELSE <<NullRequestText>>, called |-> FALSE]
  ELSE LET r == safeFilter(filter)
       IN IF r.err # "nil"
          THEN [skip |-> ~present,
                out |-> <<CannotFilterText(r.err)>> \o (IF present THEN <<>> ELSE <<NullRequestText>>),
                called |-> TRUE]
          ELSE [skip |-> r.skip \/ ~present,
                out |-> IF present THEN <<>> ELSE <<NullRequestText>>, called |-> TRUE]

\* checkFilter(req) once getFilter has returned filter; present: req is not
\* nil; called: the filter was run
checkFilter(filter, present) ==
  IF ~present THEN [skip |-> TRUE, out |-> <<NullRequestText>>, called |-> FALSE]
  ELSE IF filter = "nil" THEN [skip |-> FALSE, out |-> <<>>, called |-> FALSE]
  ELSE LET r == safeFilter(filter)
       IN IF r.err # "nil"
          THEN [skip |-> FALSE, out |-> <<CannotFilterText(r.err)>>, called |-> TRUE]
          ELSE [skip |-> r.skip, out |-> <<>>, called |-> TRUE]

-----------------------------------------------------------------------------------------------------------------------------------------------------
(* Headers. An http.Header is a map from key to the list of its values;   *)
(* it is held as the sequence of its entries in the order in which a      *)
(* `range` over the map yields them this time, which is any order.        *)
(* Strings have no order in TLA+: KeyBytes gives the bytes of a key, and  *)
(* keys are compared as Go compares strings, byte by byte.                *)

HeaderEntry(key, values) == [key |-> key, values |-> values]

NoHeader == <<>>

KeyBytes(key) ==
  CASE key = "Accept" -> <<65, 99, 99, 101, 112, 116>>
    [] key = "Authorization" -> <<65, 117, 116, 104, 111, 114, 105, 122, 97, 116, 105, 111, 110>>
    [] key = "Content-Type" -> <<67, 111, 110, 116, 101, 110, 116, 45, 84, 121, 112, 101>>
    [] key = "User-Agent" -> <<85, 115, 101, 114, 45, 65, 103, 101, 110, 116>>
    [] key = "accept-encoding" -> <<97, 99, 99, 101, 112, 116, 45, 101, 110, 99, 111, 100, 105, 110, 103>>

RECURSIVE BytesLess(_, _)
BytesLess(x, y) ==
  IF y = <<>> THEN FALSE
  ELSE IF x = <<>> THEN TRUE
  ELSE IF Head(x) # Head(y) THEN Head(x) < Head(y)
  ELSE BytesLess(Tail(x), Tail(y))

\* a < b for two Go strings
StringLess(a, b) == BytesLess(KeyBytes(a), KeyBytes(b))

\* h[key]
HeaderValues(h, key) ==
  IF \E i \in DOMAIN h : h[i].key = key
  THEN h[CHOOSE i \in DOMAIN h : h[i].key = key].values ELSE <<>>

\* header.Sanitize(header.DefaultSanitizers, h): credentials are masked
Sanitize(h) ==
  [i \in DOMAIN h |->
     IF h[i].key = "Authorization"
     THEN HeaderEntry(h[i].key, [j \in DOMAIN h[i].values |-> "<masked>"]) ELSE h[i]]

RECURSIVE InsertString(_, _)
InsertString(sorted, key) ==
  IF sorted = <<>> THEN <<key>>
  ELSE IF StringLess(key, Head(sorted)) THEN <<key>> \o sorted
  ELSE <<Head(sorted)>> \o InsertString(Tail(sorted), key)

\* sort.Strings(keys)
RECURSIVE sortStrings(_)
sortStrings(keys) ==
  IF keys = <<>> THEN <<>>
  ELSE InsertString(sortStrings(SubSeq(keys, 1, Len(keys) - 1)), keys[Len(keys)])

\* a sortHeaderKeys that leaves the keys as the map yields them
sortHeaderKeysUnsorted(h) == [i \in DOMAIN h |-> h[i].key]

\* sortHeaderKeys(h)
sortHeaderKeys(h) == sortStrings([i \in DOMAIN h |-> h[i].key])

HeaderText(prefix, key, value) == Text("%c %s%s %s", 0, 0, NoBytes, prefix \o " " \o key \o ": " \o value)

RECURSIVE headerLines(_, _, _)
headerLines(prefix, h, keys) ==
  IF keys = <<>> THEN <<>>
  ELSE [i \in 1..Len(HeaderValues(h, Head(keys))) |->
          HeaderText(prefix, Head(keys), HeaderValues(h, Head(keys))[i])]
       \o headerLines(prefix, h, Tail(keys))

\* printHeaders(prefix, h)
printHeaders(l, prefix, h) ==
  LET hs == IF ~l.SkipSanitize THEN Sanitize(h) ELSE h
  IN headerLines(prefix, hs, sortHeaderKeys(hs))

NewLine == Text("\n", 0, 0, NoBytes, "")

\* printRequestHeader(req)
printRequestHeader(l, req) ==
  <<Text("> %s %s %s", 0, 0, NoBytes, req.Method)>>
  \o (IF req.Host # "" THEN <<Text("> %s%s %s", 0, 0, NoBytes, "Host: " \o req.Host)>> ELSE <<>>)
  \o printHeaders(l, ">", req.Header)
  \o <<NewLine>>

\* printResponseHeader(proto, status, h)
printResponseHeader(l, status, h) ==
  <<Text("< %s %s", 0, 0, NoBytes, status)>> \o printHeaders(l, "<", h) \o <<NewLine>>

\* printRequestInfo(req)
printRequestInfo(req) ==
  <<Text("* Request to %s", 0, 0, NoBytes,
         IF req.URLHost # "" THEN "http://" \o req.URLHost
         ELSE (IF req.TLS.present THEN "https://" ELSE "http://") \o req.Host)>>
  \o (IF req.RemoteAddr # "" THEN <<Text("* Request from %s", 0, 0, NoBytes, req.RemoteAddr)>> ELSE <<>>)

\* printTimeRequest(): the line printed at once, and the one its closure prints
RequestAtText == Text("* Request at %v", 0, 0, NoBytes, "")
RequestTookText == Text("* Request took %v", 0, 0, NoBytes, "")

-----------------------------------------------------------------------------
(* TLS. A connection state (tls.ConnectionState) is present or not, has    *)
(* verified chains or not, a negotiated protocol or not, peer certificates *)
(* or not, and its certificate is valid for the host or not.               *)

TLSState(present, verified, alpn, peers, match) ==
  [present |-> present, verified |-> verified, alpn |-> alpn, peers |-> peers, match |-> match]

NoTLS == TLSState(FALSE, FALSE, FALSE, FALSE, FALSE)

\* tls.Config of the transport: present or not, InsecureSkipVerify, with a
\* client certificate or not, its Leaf parsed or not
TLSConfig(present, insecure, cert, leaf) ==
  [present |-> present, insecure |-> insecure, cert |-> cert, leaf |-> leaf]

NoTLSConfig == TLSConfig(FALSE, FALSE, FALSE, FALSE)

\* findPeerCertificate(hostname, state): is a certificate found
findPeerCertificate(hostname, state) ==
  \/ state.verified
  \/ hostname = "" /\ state.peers
  \/ state.peers /\ state.match

CertificateText == Text("*  subject: %v\n*  start date: %v\n*  expire date: %v\n*  issuer: %v", 0, 0, NoBytes, "")

\* printCertificate(hostname, cert); match: cert.VerifyHostname(hostname) succeeds
printCertificate(hostname, match) ==
  <<CertificateText>>
  \o (IF hostname = "" THEN <<>>
      ELSE IF ~match THEN <<Text("*  %s", 0, 0, NoBytes, "certificate is not valid for the host")>>
      ELSE <<Msg("*  TLS certificate verify ok.")>>)

\* printTLSInfo(state, skipVerifyChains)
printTLSInfo(state, skipVerifyChains) ==
  IF ~state.present THEN <<>>
  ELSE <<Msg("* TLS connection using %s / %s")>>
       \o (IF ~skipVerifyChains /\ ~state.verified THEN <<Msg(" (insecure=true)")>> ELSE <<>>)
       \o <<NewLine>>
       \o (IF state.alpn THEN <<Msg("* ALPN: %v accepted")>> ELSE <<>>)

NoCertificateText == Msg("** No valid certificate was found")

\* printTLSServer(host, state)
printTLSServer(host, state) ==
  IF ~state.present THEN <<>>
  ELSE <<Msg("* Server certificate:")>>
       \o (IF ~findPeerCertificate(host, state) THEN <<NoCertificateText>>
           ELSE printCertificate(host, state.match))

\* printOutgoingClientTLS(config)
printOutgoingClientTLS(config) ==
  IF ~config.present \/ ~config.cert THEN <<>>
  ELSE <<Msg("* Client certificate:")>>
       \o (IF ~config.leaf THEN <<Msg("** unparsed certificate found, skipping")>>
           ELSE printCertificate("", TRUE))

\* printIncomingClientTLS(state)
printIncomingClientTLS(state) ==
  IF ~state.present \/ ~state.peers THEN <<>>
  ELSE <<Msg("* Client certificate:")>>
       \o (IF ~findPeerCertificate("", state) THEN <<NoCertificateText>>
           ELSE printCertificate("", TRUE))

-----------------------------------------------------------------------------
(* Messages *)

NilBody == [mem |-> NoBytes, orig |-> FALSE, close |-> "nil"]

ContentTypeHeader(ct) == IF ct = "" THEN NoHeader ELSE <<HeaderEntry("Content-Type", <<ct>>)>>

\* the *http.Request a client sends (RoundTrip) or a server receives (ServeHTTP)
Request(kind, method, hide, body, cl, ct, tls) ==
  [Method |-> method, Host |-> "example.com",
   URLHost |-> IF kind = "out" THEN "example.com" ELSE "",
   RemoteAddr |-> IF kind = "out" THEN "" ELSE "192.0.2.1:1234",
   Header |-> ContentTypeHeader(ct), ContentLength |-> cl, ContentType |-> ct,
   Body |-> body, TLS |-> tls, Hide |-> hide]

\* the *http.Response of the transport, or what the handler writes
Response(present, body, cl, ct, tls) ==
  [present |-> present, Status |-> "200 OK", Header |-> ContentTypeHeader(ct),
   ContentLength |-> cl, ContentType |-> ct, Body |-> body, TLS |-> tls]

NilResponse == Response(FALSE, NilBody, 0, "", NoTLS)

\* responseRecorder after the handler has written size bytes: the bytes are
\* kept unless they exceed a positive maxReadableBody
responseRecorder(l, written, size) ==
  [statusCode |-> written.Status, Header |-> written.Header, ContentType |-> written.ContentType,
   size |-> size,
   buf |-> IF l.MaxResponseBody > 0 /\ size > l.MaxResponseBody THEN NoBytes ELSE Range(0, size)]

-----------------------------------------------------------------------------
(* What a cycle prints, as the operations of its printer. Request side and *)
(* response side return the operations (ops), the message with its Body as *)
(* the logger leaves it (msg), the body's stream (s), the formatter calls  *)
(* and whether a runtime panic cut it short.                               *)

Side(ops, msg, s, calls, panicked) ==
  [ops |-> ops, msg |-> msg, s |-> s, calls |-> calls, panicked |-> panicked]

\* a printRequest that does not flush after the body
printRequestBodyNotFlushed(l, p, req, s) ==
  LET hdr == IF l.RequestHeader
             THEN Prints(printRequestHeader(l, req)) \o maybeOnReady(p) ELSE <<>>
      r == printRequestBody(l, req, s)
  IN IF l.RequestBody /\ req.Body # NilBody
     THEN Side(hdr \o Prints(r.out), [req EXCEPT !.Body = r.body], r.s, r.calls, r.panicked)
     ELSE Side(hdr, req, s, <<>>, FALSE)

\* printRequest(req)
printRequest(l, p, req, s) ==
  LET hdr == IF l.RequestHeader
             THEN Prints(printRequestHeader(l, req)) \o maybeOnReady(p) ELSE <<>>
      r == printRequestBody(l, req, s)
  IN IF l.RequestBody /\ req.Body # NilBody
     THEN Side(hdr \o Prints(r.out) \o (IF r.panicked THEN <<>> ELSE maybeOnReady(p)),
               [req EXCEPT !.Body = r.body], r.s, r.calls, r.panicked)
     ELSE Side(hdr, req, s, <<>>, FALSE)

\* a printResponse that prints the body before the header
printResponseBodyFirst(l, p, resp, method, s) ==
  LET hdr == IF l.ResponseHeader
             THEN Prints(printResponseHeader(l, resp.Status, resp.Header)) \o maybeOnReady(p) ELSE <<>>
      r == printResponseBodyOut(l, resp, s)
  IN IF ~resp.present
     THEN Side(<<PrintOp(NullResponseText)>> \o maybeOnReady(p), resp, s, <<>>, FALSE)
     ELSE IF l.ResponseBody /\ resp.Body # NilBody /\ method # "HEAD"
     THEN Side(Prints(r.out) \o (IF r.panicked THEN <<>> ELSE maybeOnReady(p)) \o hdr,
               [resp EXCEPT !.Body = r.body], r.s, r.calls, r.panicked)
     ELSE Side(hdr, resp, s, <<>>, FALSE)

\* printResponse(resp); method is resp.Request.Method
printResponse(l, p, resp, method, s) ==
  LET hdr == IF l.ResponseHeader
             THEN Prints(printResponseHeader(l, resp.Status, resp.Header)) \o maybeOnReady(p) ELSE <<>>
      r == printResponseBodyOut(l, resp, s)
  IN IF ~resp.present
     THEN Side(<<PrintOp(NullResponseText)>> \o maybeOnReady(p), resp, s, <<>>, FALSE)
     ELSE IF l.ResponseBody /\ resp.Body # NilBody /\ method # "HEAD"
     THEN Side(hdr \o Prints(r.out) \o (IF r.panicked THEN <<>> ELSE maybeOnReady(p)),
               [resp EXCEPT !.Body = r.body], r.s, r.calls, r.panicked)
     ELSE Side(hdr, resp, s, <<>>, FALSE)

\* printServerResponse(req, rec)
printServerResponse(l, rec) ==
  LET hdr == IF l.ResponseHeader
             THEN printResponseHeader(l, rec.statusCode, rec.Header) ELSE <<>>
      bf == checkBodyFiltered(l)
      pre == bf.out \o (IF bf.err THEN <<BodyFilterErrorText("resp")>> ELSE <<>>)
      pr == printBodyReader(l.Formatters, rec.ContentType, rec.buf, "nil")
  IN IF ~l.ResponseBody \/ rec.size = 0 THEN [out |-> hdr, calls |-> <<>>]
     ELSE IF bf.skip THEN [out |-> hdr \o pre, calls |-> <<>>]
     ELSE IF declaredTooLong(l.MaxResponseBody, rec.size)
     THEN [out |-> hdr \o pre \o <<TooLongDeclared(rec.size, l.MaxResponseBody)>>, calls |-> <<>>]
     ELSE [out |-> hdr \o pre \o pr.out, calls |-> pr.calls]

TimeStart(l) == IF l.Time THEN <<PrintOp(RequestAtText)>> ELSE <<>>
TimeEnd(l) == IF l.Time THEN <<PrintOp(RequestTookText)>> ELSE <<>>

SkippingTLSText ==
  Text("* Skipping TLS verification: %s", 0, 0, NoBytes, "connection is susceptible to man-in-the-middle attacks.")

\* RoundTrip, from the printTimeRequest() call to printRequest(req)
roundTripRequestSide(l, p, req, s, config) ==
  LET r == printRequest(l, p, req, s)
  IN [r EXCEPT !.ops =
        TimeStart(l)
        \o (IF ~l.SkipRequestInfo THEN Prints(printRequestInfo(req)) ELSE <<>>)
        \o (IF config.present /\ config.insecure THEN <<PrintOp(SkippingTLSText)>> ELSE <<>>)
        \o (IF l.TLS /\ config.present THEN Prints(printOutgoingClientTLS(config)) ELSE <<>>)
        \o @]

TransportErrorText == Text("* %s", 0, 0, NoBytes, "transport error")

\* a deferred function that prints the error after the response
roundTripResponseSideErrorLast(l, p, req, resp, err, s) ==
  LET e == IF err THEN <<PrintOp(TransportErrorText)>> ELSE <<>>
      r == printResponse(l, p, resp, req.Method, s)
  IN IF err /\ ~resp.present
     THEN Side(e, resp, s, <<>>, FALSE)
     ELSE [r EXCEPT !.ops =
             Prints(printTLSInfo(resp.TLS, FALSE))
               \o Prints(printTLSServer(req.Host, resp.TLS)) \o @ \o e]

\* RoundTrip's deferred function, run when tripper.RoundTrip(req) has returned
roundTripResponseSide(l, p, req, resp, err, s) ==
  LET e == IF err THEN <<PrintOp(TransportErrorText)>> ELSE <<>>
      r == printResponse(l, p, resp, req.Method, s)
  IN IF err /\ ~resp.present
     THEN Side(e, resp, s, <<>>, FALSE)
     ELSE [r EXCEPT !.ops =
             e \o Prints(printTLSInfo(resp.TLS, FALSE))
               \o Prints(printTLSServer(req.Host, resp.TLS)) \o @]

\* ServeHTTP, from the printTimeRequest() call to printRequest(req)
serveRequestSide(l, p, req, s) ==
  LET r == printRequest(l, p, req, s)
  IN [r EXCEPT !.ops =
        TimeStart(l)
        \o (IF ~l.SkipRequestInfo THEN Prints(printRequestInfo(req)) ELSE <<>>)
        \o (IF l.TLS THEN Prints(printTLSInfo(req.TLS, TRUE))
                          \o Prints(printIncomingClientTLS(req.TLS)) ELSE <<>>)
        \o @]

-----------------------------------------------------------------------------
(* State *)

\* cycles (RoundTrip / ServeHTTP calls) that may run concurrently
NumCycles == 2

\* calls of SetFilter / SetOutput / SetFlusher made while the cycles run
MaxSets == 1

Cycles == 1..NumCycles

\* the goroutine that calls the setters
SetterId == NumCycles + 1

VARIABLES
  logger,  \* the Logger: its options and its fields w, filter, flusher
  mu,      \* Logger.mu: 0 when free, else the goroutine holding it
  writes,  \* every Write made on a sink so far: by whom, to which sink, what
  cyc,     \* per cycle: where it is, its printer, its messages
  setter,  \* the goroutine calling the setters: calls left, inside a setter
  bx,      \* one body capture: its inputs, the original stream, what was printed
  px       \* one PrintRequest / PrintResponse call: its input, what was printed

vars == <<logger, mu, writes, cyc, setter, bx, px>>

Options ==
  [SkipRequestInfo : BOOLEAN, Time : BOOLEAN, TLS : BOOLEAN, RequestHeader : BOOLEAN,
   RequestBody : BOOLEAN, ResponseHeader : BOOLEAN, ResponseBody : BOOLEAN]

AllOn ==
  [SkipRequestInfo |-> FALSE, Time |-> TRUE, TLS |-> TRUE, RequestHeader |-> TRUE,
   RequestBody |-> TRUE, ResponseHeader |-> TRUE, ResponseBody |-> TRUE]

AllOff ==
  [SkipRequestInfo |-> FALSE, Time |-> FALSE, TLS |-> FALSE, RequestHeader |-> FALSE,
   RequestBody |-> FALSE, ResponseHeader |-> FALSE, ResponseBody |-> FALSE]

\* &Logger{...} followed by SetFlusher, SetFilter, SetBodyFilter; w is nil
\* (os.Stdout) until SetOutput
Logger(o, fs, ceiling, flusher, filter, bf) ==
  [SkipRequestInfo |-> o.SkipRequestInfo, Time |-> o.Time, TLS |-> o.TLS,
   RequestHeader |-> o.RequestHeader, RequestBody |-> o.RequestBody,
   ResponseHeader |-> o.ResponseHeader, ResponseBody |-> o.ResponseBody,
   SkipSanitize |-> FALSE, Formatters |-> fs,
   MaxRequestBody |-> ceiling, MaxResponseBody |-> ceiling,
   w |-> "nil", filter |-> filter, flusher |-> flusher, bodyFilter |-> bf,
   skipHeader |-> {}]

IdleLogger == Logger(AllOff, <<>>, 0, "NoBuffer", "nil", "nil")

\* (l *Logger) getWriter
getWriter(l) == IF l.w = "nil" THEN "os.Stdout" ELSE l.w

Sinks == {"nil", "buf"}

NoStream == Stream(0, 1, TRUE, FALSE)

\* a cycle about to start: RoundTrip(req) or ServeHTTP(w, req) has been called;
\* start keeps its inputs, mark the number of texts printed before the call
\* of the wrapped transport or handler, built the filter and the flush
\* strategy of the Logger when newPrinter ran
CycleStart(kind, req, qs, config, resp, err, rs) ==
  [pc |-> "start", kind |-> kind, req |-> req, qs |-> qs, config |-> config,
   tr |-> [resp |-> resp, err |-> err], rs |-> rs,
   p |-> ZeroPrinter, filter |-> "nil", todo |-> <<NewPrinterOp>>, held |-> FALSE,
   printed |-> <<>>, suppressed |-> FALSE, calls |-> 0, sent |-> NoBytes,
   ret |-> NilResponse, fcalls |-> <<>>, got |-> NoBytes, mark |-> 0,
   start |-> [req |-> req, qs |-> qs, rs |-> rs],
   built |-> [filter |-> "nil", flusher |-> "NoBuffer"]]

IdleCycle ==
  [CycleStart("out", Request("out", "GET", FALSE, NilBody, 0, "", NoTLS), NoStream,
              NoTLSConfig, NilResponse, FALSE, NoStream)
     EXCEPT !.pc = "idle", !.todo = <<>>]

IdleBody ==
  [pc |-> "idle", dir |-> "req", l |-> [MaxRequestBody |-> 0, MaxResponseBody |-> 0,
                                         Formatters |-> <<>>, bodyFilter |-> "nil"],
   msg |-> [ContentLength |-> 0, ContentType |-> "", Body |-> NilBody], s |-> NoStream,
   size |-> 0, out |-> <<>>, calls |-> <<>>, panicked |-> FALSE, got |-> NoBytes]

\* a call of PrintRequest(req) or PrintResponse(resp) about to start; nil:
\* the argument is nil; s: the stream of the message's Body
PrintStart(op, nil, req, resp, s) ==
  [pc |-> "start", op |-> op, nil |-> nil, req |-> req, resp |-> resp, s |-> s,
   out |-> <<>>, called |-> FALSE, panicked |-> FALSE]

IdlePrint ==
  [PrintStart("PrintRequest", TRUE, Request("out", "GET", FALSE, NilBody, 0, "", NoTLS),
              NilResponse, NoStream) EXCEPT !.pc = "idle"]

-----------------------------------------------------------------------------
(* Body capture on its own: printRequestBody / printResponseBodyOut are    *)
(* applied to one message, and then the real consumer of the message (the  *)
(* transport for a request, the caller for a response) reads its Body.     *)

Sizes == {0, 1, 999, 1000, 1001, 4096, 4097, 5000, 5001, 9846}
Ceilings == {-1, 0, 1000, 4096, 5000}
Chunks == {1, 1000, 4096, 16384}

RECURSIVE SeqsUpTo(_, _)
SeqsUpTo(S, n) ==
  IF n = 0 THEN {<<>>}
  ELSE LET shorter == SeqsUpTo(S, n - 1)
       IN shorter \cup {Append(q, x) : q \in {r \in shorter : Len(r) = n - 1}, x \in S}

FormatterLists == SeqsUpTo(FormatterKinds, MaxFormatters)

\* ContentLength as declared for a body of n bytes: its length, or unknown
\* (-1; for a request also 0 with a non-nil Body)
ContentLengths(dir, n) == IF dir = "req" THEN {n, -1, 0} ELSE {n, -1}

BodyLogger(ceiling, fs, bf) ==
  [MaxRequestBody |-> ceiling, MaxResponseBody |-> ceiling, Formatters |-> fs, bodyFilter |-> bf]

BodyMessage(cl, ct) == [ContentLength |-> cl, ContentType |-> ct, Body |-> OriginalBody]

BodyStart(dir, l, msg, s) ==
  [pc |-> "start", dir |-> dir, l |-> l, msg |-> msg, s |-> s, size |-> s.end,
   out |-> <<>>, calls |-> <<>>, panicked |-> FALSE, got |-> NoBytes]

\* every stream and ceiling with no formatter, or every list of formatters
\* and content type on one body
InitBodyInputs ==
  \/ \E dir \in {"req", "resp"}, c \in Ceilings, bf \in BodyFilterKinds, n \in Sizes,
        chunk \in Chunks, eager \in BOOLEAN, fail \in BOOLEAN :
       \E cl \in ContentLengths(dir, n) :
         bx = BodyStart(dir, BodyLogger(c, <<>>, bf), BodyMessage(cl, "text/plain; charset=utf-8"),
                        Stream(n, chunk, eager, fail))
  \/ \E dir \in {"req", "resp"}, fs \in FormatterLists, ct \in ContentTypes, cl \in {-1, 1000} :
       bx = BodyStart(dir, BodyLogger(0, fs, "nil"), BodyMessage(cl, ct),
                      Stream(1000, 16384, TRUE, FALSE))

InitBody ==
  /\ InitBodyInputs
  /\ logger = IdleLogger /\ mu = 0 /\ writes = <<>>
  /\ cyc = [c \in Cycles |-> IdleCycle]
  /\ setter = [left |-> 0, held |-> FALSE]
  /\ px = IdlePrint

BodyDone(r) ==
  /\ UNCHANGED <<logger, mu, writes, cyc, setter, px>>
  /\ bx' = [bx EXCEPT !.pc = "printed", !.msg.Body = r.body, !.s = r.s, !.out = r.out,
                   !.calls = r.calls, !.panicked = r.panicked]

BodyPrintRequest ==
  /\ bx.pc = "start" /\ bx.dir = "req"
  /\ BodyDone(printRequestBody(bx.l, bx.msg, bx.s))

BodyPrintResponse ==
  /\ bx.pc = "start" /\ bx.dir = "resp"
  /\ BodyDone(printResponseBodyOut(bx.l, bx.msg, bx.s))

\* the consumer reads the Body to its end and closes it
BodyConsume ==
  /\ bx.pc = "printed" /\ ~bx.panicked
  /\ UNCHANGED <<logger, mu, writes, cyc, setter, px>>
  /\ bx' = [bx EXCEPT !.pc = "consumed",
                      !.got = Readable(bx.msg.Body, bx.s),
                      !.s = IF bx.msg.Body.close = "orig" THEN StreamClose(bx.s) ELSE bx.s]

NextBody == BodyPrintRequest \/ BodyPrintResponse \/ BodyConsume

SpecBody == InitBody /\ [][NextBody]_vars

-----------------------------------------------------------------------------
(* The printer's operations. Each one locks the Logger's mutex (Lock) and  *)
(* then runs to its end, where the deferred Unlock frees the mutex.        *)

Me(c) == cyc[c]

Step(c, next) ==
  cyc' = [cyc EXCEPT ![c] = next]

\* l.mu.Lock() without the mutex when the operation is flush
LockExceptInFlush(c) ==
  /\ Me(c).todo # <<>> /\ ~Me(c).held
  /\ IF Head(Me(c).todo).op = "flush" THEN mu' = mu ELSE mu = 0 /\ mu' = c
  /\ Step(c, [Me(c) EXCEPT !.held = TRUE])
  /\ UNCHANGED <<logger, writes, setter, bx, px>>

\* l.mu.Lock() at the start of newPrinter, getFilter, print, println, printf
\* and of a flush that is not a no-op
Lock(c) ==
  /\ Me(c).todo # <<>> /\ ~Me(c).held
  /\ mu = 0 /\ mu' = c
  /\ Step(c, [Me(c) EXCEPT !.held = TRUE])
  /\ UNCHANGED <<logger, writes, setter, bx, px>>

\* the operation has run: it leaves the queue and its deferred Unlock runs
Unlocked(me) == [me EXCEPT !.todo = Tail(@), !.held = FALSE]

\* newPrinter(l)
NewPrinter(c) ==
  /\ Me(c).held /\ Head(Me(c).todo).op = "newPrinter"
  /\ Step(c, Unlocked([Me(c) EXCEPT !.p = [flusher |-> logger.flusher, buf |-> <<>>],
                                   !.built = [filter |-> logger.filter,
                                              flusher |-> logger.flusher]]))
  /\ mu' = 0
  /\ UNCHANGED <<logger, writes, setter, bx, px>>

\* a getFilter whose Unlock does not run when it returns
GetFilterKeepsLock(c) ==
  /\ Me(c).held /\ Head(Me(c).todo).op = "getFilter"
  /\ Step(c, [Me(c) EXCEPT !.filter = logger.filter, !.todo = Tail(@)])
  /\ mu' = mu
  /\ UNCHANGED <<logger, writes, setter, bx, px>>

\* (l *Logger) getFilter
GetFilter(c) ==
  /\ Me(c).held /\ Head(Me(c).todo).op = "getFilter"
  /\ Step(c, Unlocked([Me(c) EXCEPT !.filter = logger.filter]))
  /\ mu' = 0
  /\ UNCHANGED <<logger, writes, setter, bx, px>>

Write(c, txt) == [by |-> c, to |-> getWriter(logger), txt |-> txt]

\* a print that reads the flush strategy of the Logger, not the printer's
PrinterPrintReadsLogger(c) ==
  /\ Me(c).held /\ Head(Me(c).todo).op = "print"
  /\ LET text == Head(Me(c).todo).text
         me == [Me(c) EXCEPT !.printed = Append(@, text)]
     IN IF logger.flusher = "NoBuffer"
        THEN /\ writes' = Append(writes, Write(c, <<text>>))
             /\ Step(c, Unlocked(me))
        ELSE /\ writes' = writes
             /\ Step(c, Unlocked([me EXCEPT !.p.buf = Append(@, text)]))
  /\ mu' = 0
  /\ UNCHANGED <<logger, setter, bx, px>>

\* (p *printer) print / println / printf
PrinterPrint(c) ==
  /\ Me(c).held /\ Head(Me(c).todo).op = "print"
  /\ LET text == Head(Me(c).todo).text
         me == [Me(c) EXCEPT !.printed = Append(@, text)]
     IN IF Me(c).p.flusher = "NoBuffer"
        THEN /\ writes' = Append(writes, Write(c, <<text>>))
             /\ Step(c, Unlocked(me))
        ELSE /\ writes' = writes
             /\ Step(c, Unlocked([me EXCEPT !.p.buf = Append(@, text)]))
  /\ mu' = 0
  /\ UNCHANGED <<logger, setter, bx, px>>

\* a flush without its deferred p.buf.Reset()
FlushKeepsBuffer(c) ==
  /\ Me(c).held /\ Head(Me(c).todo).op = "flush"
  /\ writes' = Append(writes, Write(c, Me(c).p.buf))
  /\ Step(c, Unlocked(Me(c)))
  /\ mu' = 0
  /\ UNCHANGED <<logger, setter, bx, px>>

\* (p *printer) flush, when the printer buffers
Flush(c) ==
  /\ Me(c).held /\ Head(Me(c).todo).op = "flush"
  /\ writes' = Append(writes, Write(c, Me(c).p.buf))
  /\ Step(c, Unlocked([Me(c) EXCEPT !.p.buf = <<>>]))
  /\ mu' = 0
  /\ UNCHANGED <<logger, setter, bx, px>>

-----------------------------------------------------------------------------
(* A cycle: RoundTrip (kind "out") or ServeHTTP (kind "in"). Between two   *)
(* operations of its printer a cycle works on its own data only.           *)

Between(c, pc) == Me(c).pc = pc /\ Me(c).todo = <<>>

Unshared == UNCHANGED <<logger, mu, writes, setter, bx, px>>

\* a cycle that does not look for the WithHide marker
CheckHideNotLooked(c) ==
  /\ Between(c, "start")
  /\ Step(c, [Me(c) EXCEPT !.pc = "filter", !.todo = <<GetFilterOp>>])
  /\ Unshared

\* hide := req.Context().Value(contextHide{}); hide != nil || p.checkFilter(req)
CheckHide(c) ==
  /\ Between(c, "start")
  /\ IF Me(c).req.Hide
     THEN Step(c, [Me(c) EXCEPT !.pc = "call", !.suppressed = TRUE])
     ELSE Step(c, [Me(c) EXCEPT !.pc = "filter", !.todo = <<GetFilterOp>>])
  /\ Unshared

\* p.checkFilter(req), after getFilter
CheckFilter(c) ==
  /\ Between(c, "filter")
  /\ LET r == checkFilter(Me(c).filter, TRUE)
     IN Step(c, [Me(c) EXCEPT !.pc = IF r.skip THEN "call" ELSE "request",
                              !.suppressed = r.skip, !.todo = Prints(r.out)])
  /\ Unshared

\* what is left to do once the request or response side is computed: the
\* deferred calls still run when a panic unwinds the cycle
AfterSide(c, me, side, deferred, pc) ==
  Step(c, [me EXCEPT !.todo = side.ops \o deferred,
                     !.fcalls = @ \o side.calls,
                     !.pc = IF side.panicked THEN "panicking" ELSE pc])

\* RoundTrip from `if l.Time` to p.printRequest(req)
RoundTripRequest(c) ==
  /\ Between(c, "request") /\ Me(c).kind = "out"
  /\ \E side \in {roundTripRequestSide(logger, Me(c).p, Me(c).req, Me(c).qs, Me(c).config)} :
       AfterSide(c, [Me(c) EXCEPT !.req = side.msg, !.qs = side.s], side,
                  IF side.panicked THEN TimeEnd(logger) \o flush(Me(c).p) ELSE <<>>, "call")
  /\ Unshared

\* ServeHTTP from `if p.logger.Time` to p.printRequest(req)
ServeHTTPRequest(c) ==
  /\ Between(c, "request") /\ Me(c).kind = "in"
  /\ \E side \in {serveRequestSide(logger, Me(c).p, Me(c).req, Me(c).qs)} :
       AfterSide(c, [Me(c) EXCEPT !.req = side.msg, !.qs = side.s], side,
                  IF side.panicked THEN TimeEnd(logger) \o flush(Me(c).p) ELSE <<>>, "call")
  /\ Unshared

\* the wrapped transport or handler reads the request's Body to its end
Called(me) ==
  [me EXCEPT !.calls = @ + 1, !.mark = Len(me.printed),
             !.sent = IF me.req.Body = NilBody THEN NoBytes ELSE Readable(me.req.Body, me.qs),
             !.qs = IF me.req.Body = NilBody THEN @ ELSE [@ EXCEPT !.pos = me.qs.end]]

\* tripper.RoundTrip(req) and, when it has returned, the deferred calls
RoundTripCall(c) ==
  /\ Between(c, "call") /\ Me(c).kind = "out"
  /\ \E me \in {Called(Me(c))} :
     \E side \in {roundTripResponseSide(logger, me.p, me.req, me.tr.resp, me.tr.err, me.rs)} :
        IF me.suppressed
        THEN Step(c, [me EXCEPT !.ret = me.tr.resp, !.todo = flush(me.p), !.pc = "return"])
        ELSE AfterSide(c, [me EXCEPT !.ret = side.msg, !.rs = side.s], side,
                       TimeEnd(logger) \o flush(me.p), "return")
  /\ Unshared

\* h.next.ServeHTTP(rec, req) and, when it has returned, the deferred calls
ServeHTTPCall(c) ==
  /\ Between(c, "call") /\ Me(c).kind = "in"
  /\ \E me \in {Called(Me(c))} :
     \E r \in {printServerResponse(logger, responseRecorder(logger, me.tr.resp, me.rs.end))} :
        IF me.suppressed
        THEN Step(c, [me EXCEPT !.ret = me.tr.resp, !.todo = flush(me.p), !.pc = "return"])
        ELSE AfterSide(c, [me EXCEPT !.ret = me.tr.resp],
                       Side(Prints(r.out), me.tr.resp, me.rs, r.calls, FALSE),
                       TimeEnd(logger) \o flush(me.p), "return")
  /\ Unshared

\* the cycle returns; its caller reads the response's Body to its end
Return(c) ==
  /\ Between(c, "return")
  /\ Step(c, [Me(c) EXCEPT !.pc = "done",
                           !.got = IF Me(c).ret.present /\ Me(c).ret.Body # NilBody
                                   THEN Readable(Me(c).ret.Body, Me(c).rs) ELSE NoBytes])
  /\ Unshared

\* a runtime panic leaves the cycle once the deferred calls have run
Panic(c) ==
  /\ Between(c, "panicking")
  /\ Step(c, [Me(c) EXCEPT !.pc = "panicked"])
  /\ Unshared

-----------------------------------------------------------------------------
(* The setters, called by another goroutine while cycles run *)

SetterLock ==
  /\ setter.left > 0 /\ ~setter.held
  /\ mu = 0 /\ mu' = SetterId
  /\ setter' = [setter EXCEPT !.held = TRUE]
  /\ UNCHANGED <<logger, writes, cyc, bx, px>>

SetterDone ==
  /\ mu' = 0
  /\ setter' = [left |-> setter.left - 1, held |-> FALSE]
  /\ UNCHANGED <<writes, cyc, bx, px>>

\* (l *Logger) SetFilter
SetFilter ==
  /\ setter.held
  /\ \E f \in {"nil", "skip"} : logger' = [logger EXCEPT !.filter = f]
  /\ SetterDone

\* (l *Logger) SetOutput
SetOutput ==
  /\ setter.held
  /\ \E w \in Sinks : logger' = [logger EXCEPT !.w = w]
  /\ SetterDone

\* (l *Logger) SetFlusher
SetFlusher ==
  /\ setter.held
  /\ \E f \in Flushers : logger' = [logger EXCEPT !.flusher = f]
  /\ SetterDone

-----------------------------------------------------------------------------
(* One cycle on its own, with every option (SpecCycle) *)

SmallRequestBody == Stream(5, 16384, FALSE, FALSE)
SmallResponseBody == Stream(7, 16384, TRUE, FALSE)

VerifiedTLS == TLSState(TRUE, TRUE, TRUE, TRUE, TRUE)
InsecureTLS == TLSState(TRUE, FALSE, FALSE, TRUE, FALSE)
TLSStates == {NoTLS, VerifiedTLS, InsecureTLS}

TLSConfigs ==
  {NoTLSConfig, TLSConfig(TRUE, TRUE, FALSE, FALSE), TLSConfig(TRUE, FALSE, TRUE, TRUE),
   TLSConfig(TRUE, FALSE, TRUE, FALSE)}

\* a PUT with a 5-byte body of declared length, answered by 7 bytes of
\* unknown length (outbound) or written by the handler (inbound)
PutCycle(kind, hide, ct, tls, config) ==
  CycleStart(kind, Request(kind, "PUT", hide, OriginalBody, 5, ct, IF kind = "in" THEN tls ELSE NoTLS),
             SmallRequestBody, IF kind = "out" THEN config ELSE NoTLSConfig,
             Response(TRUE, IF kind = "out" THEN OriginalBody ELSE NilBody,
                      IF kind = "out" THEN -1 ELSE 7, ct, IF kind = "out" THEN tls ELSE NoTLS),
             FALSE, SmallResponseBody)

\* what the transport returns: a response, an error, or an error and a response
Outcome(cycle, present, err, method) ==
  [cycle EXCEPT !.tr = [resp |-> IF present THEN @.resp ELSE NilResponse, err |-> err],
                !.req.Method = method, !.start.req.Method = method]

Alone(l, cycle) ==
  /\ logger = l
  /\ cyc = [c \in Cycles |-> IF c = 1 THEN cycle ELSE IdleCycle]
  /\ mu = 0 /\ writes = <<>> /\ setter = [left |-> 0, held |-> FALSE] /\ bx = IdleBody /\ px = IdlePrint

InitCycle ==
  \/ \E o \in Options, f \in Flushers, kind \in {"out", "in"} :
       Alone(Logger(o, <<>>, 0, f, "nil", "nil"),
             PutCycle(kind, FALSE, "text/plain; charset=utf-8", VerifiedTLS, TLSConfig(TRUE, FALSE, TRUE, TRUE)))
  \/ \E o \in {AllOn, AllOff}, f \in Flushers, kind \in {"out", "in"},
        hide \in BOOLEAN, filter \in FilterKinds :
       Alone(Logger(o, <<>>, 0, f, filter, "nil"),
             PutCycle(kind, hide, "text/plain; charset=utf-8", VerifiedTLS, TLSConfig(TRUE, FALSE, TRUE, TRUE)))
  \/ \E o \in {AllOn, [AllOn EXCEPT !.TLS = FALSE]}, f \in Flushers, kind \in {"out", "in"},
        tls \in TLSStates, config \in TLSConfigs, method \in {"PUT", "HEAD"},
        present \in BOOLEAN, err \in BOOLEAN :
       /\ present \/ err
       /\ kind = "in" => present /\ ~err /\ config = NoTLSConfig
       /\ Alone(Logger(o, <<>>, 0, f, "nil", "nil"),
                Outcome(PutCycle(kind, FALSE, "text/plain; charset=utf-8", tls, config), present, err, method))
  \/ \E fs \in FormatterLists, kind \in {"out", "in"}, bf \in BodyFilterKinds :
       Alone(Logger(AllOn, fs, 0, "NoBuffer", "nil", bf),
             PutCycle(kind, FALSE, "application/json", NoTLS, NoTLSConfig))
  \/ \E f \in Flushers, kind \in {"out", "in"} :
       Alone(Logger(AllOn, <<>>, -1, f, "nil", "nil"),
             PutCycle(kind, FALSE, "text/plain; charset=utf-8", NoTLS, NoTLSConfig))

CycleNext(c) ==
  \/ Lock(c) \/ NewPrinter(c) \/ GetFilter(c) \/ PrinterPrint(c) \/ Flush(c)
  \/ CheckHide(c) \/ CheckFilter(c)
  \/ RoundTripRequest(c) \/ ServeHTTPRequest(c)
  \/ RoundTripCall(c) \/ ServeHTTPCall(c)
  \/ Return(c)

NextCycle == \E c \in Cycles : CycleNext(c) \/ Panic(c)

SpecCycle == InitCycle /\ [][NextCycle]_vars

-----------------------------------------------------------------------------
(* Concurrent cycles sharing one Logger and one sink, while another        *)
(* goroutine calls the setters (Spec). Odd cycles are RoundTrip calls,     *)
(* even ones ServeHTTP calls.                                              *)

SharedOptions == [AllOff EXCEPT !.RequestHeader = TRUE, !.RequestBody = TRUE]

\* one formatter, which matches every media type
SharedFormatters == <<[match |-> "yes", format |-> "ok"]>>

Init ==
  /\ \E f \in Flushers, filter \in {"nil", "skip"} :
       logger = Logger(SharedOptions, SharedFormatters, 0, f, filter, "keep")
  /\ cyc = [c \in Cycles |->
             PutCycle(IF c % 2 = 1 THEN "out" ELSE "in", FALSE,
                      "text/plain; charset=utf-8", NoTLS, NoTLSConfig)]
  /\ mu = 0 /\ writes = <<>> /\ bx = IdleBody /\ px = IdlePrint
  /\ setter = [left |-> MaxSets, held |-> FALSE]

\* no ceiling is negative here, so no cycle panics
Next ==
  \/ \E c \in Cycles : CycleNext(c)
  \/ SetterLock \/ SetFilter \/ SetOutput \/ SetFlusher

Spec == Init /\ [][Next]_vars

-----------------------------------------------------------------------------
(* The direct print operations, Logger.PrintRequest and                    *)
(* Logger.PrintResponse, each with a printer{logger: l} of its own that    *)
(* does not buffer, after Logger.SkipHeader may have been called           *)
(* (SpecPrint).                                                            *)

\* the writes of a printer that does not buffer: one per text
DirectWrites(l, texts) ==
  [i \in 1..Len(texts) |-> [by |-> 0, to |-> getWriter(l), txt |-> <<texts[i]>>]]

\* http.CanonicalHeaderKey(name)
CanonicalHeaderKey(name) ==
  CASE name = "user-agent" -> "User-Agent"
    [] name = "content-type" -> "Content-Type"
    [] name = "accept" -> "Accept"
    [] OTHER -> name

SkipLists == {<<"user-agent", "content-type">>, <<"accept">>}

\* (l *Logger) SkipHeader(headers)
SkipHeader ==
  /\ px.pc = "start" /\ logger.skipHeader = {}
  /\ \E headers \in SkipLists :
       logger' = [logger EXCEPT !.skipHeader = {CanonicalHeaderKey(headers[i]) : i \in DOMAIN headers}]
  /\ UNCHANGED <<mu, writes, cyc, setter, bx, px>>

PrintDone(cf, side) ==
  /\ \E out \in {cf.out \o (IF cf.skip THEN <<>> ELSE PrintedTexts(side.ops))} :
       /\ px' = [px EXCEPT !.pc = "done", !.out = out, !.called = cf.called,
                           !.panicked = ~cf.skip /\ side.panicked]
       /\ writes' = writes \o DirectWrites(logger, out)
  /\ UNCHANGED <<logger, mu, cyc, setter, bx>>

\* (l *Logger) PrintRequest(req)
PrintRequest ==
  /\ px.pc = "start" /\ px.op = "PrintRequest"
  /\ \E cf \in {checkFilter(logger.filter, ~px.nil)} :
     \E side \in {printRequest(logger, ZeroPrinter, px.req, px.s)} :
       PrintDone(cf, side)

\* (l *Logger) PrintResponse(resp)
PrintResponse ==
  /\ px.pc = "start" /\ px.op = "PrintResponse"
  /\ \E side \in {printResponse(logger, ZeroPrinter, px.resp, "", px.s)} :
       PrintDone([skip |-> FALSE, out |-> <<>>, called |-> FALSE], side)

HeaderKeys == {"Accept", "Authorization", "Content-Type", "User-Agent", "accept-encoding"}

HeaderValuesOf(key) ==
  CASE key = "Accept" -> {<<"text/html">>, <<"text/plain", "*/*">>}
    [] key = "Authorization" -> {<<"Basic c2VjcmV0">>}
    [] key = "Content-Type" -> {<<"text/plain; charset=utf-8">>}
    [] key = "User-Agent" -> {<<"Robot/0.1 crawler@example.com">>}
    [] key = "accept-encoding" -> {<<"gzip">>}

\* every header over HeaderKeys, in every order a range may yield its keys
RECURSIVE HeadersOver(_)
HeadersOver(keys) ==
  {<<>>} \cup
  UNION {{<<HeaderEntry(k, v)>> \o h : v \in HeaderValuesOf(k), h \in HeadersOver(keys \ {k})} : k \in keys}

Headers == HeadersOver(HeaderKeys)

\* a message with header h and no Body, or one with a small Body
PrintInput(op, nil, h, body) ==
  PrintStart(op, nil,
             [Request("out", "GET", FALSE, body, IF body = NilBody THEN 0 ELSE 5, "", NoTLS)
                EXCEPT !.Header = h],
             [Response(~nil, body, IF body = NilBody THEN 0 ELSE 7, "", NoTLS) EXCEPT !.Header = h],
             IF body = NilBody THEN NoStream
             ELSE IF op = "PrintRequest" THEN SmallRequestBody ELSE SmallResponseBody)

InitPrint ==
  /\ \/ \E op \in {"PrintRequest", "PrintResponse"}, h \in Headers, ss \in BOOLEAN :
          /\ logger = [Logger(AllOn, <<>>, 0, "NoBuffer", "nil", "nil") EXCEPT !.SkipSanitize = ss]
          /\ px = PrintInput(op, FALSE, h, NilBody)
     \/ \E op \in {"PrintRequest", "PrintResponse"}, nil \in BOOLEAN, filter \in FilterKinds,
           o \in {AllOn, AllOff}, f \in Flushers, body \in {NilBody, OriginalBody} :
          /\ logger = Logger(o, <<>>, 0, f, filter, "nil")
          /\ px = PrintInput(op, nil, ContentTypeHeader("text/plain; charset=utf-8"), body)
  /\ mu = 0 /\ writes = <<>> /\ bx = IdleBody
  /\ cyc = [c \in Cycles |-> IdleCycle]
  /\ setter = [left |-> 0, held |-> FALSE]

NextPrint == SkipHeader \/ PrintRequest \/ PrintResponse

SpecPrint == InitPrint /\ [][NextPrint]_vars

-----------------------------------------------------------------------------
(* Claims on body capture (SpecBody) *)

BxCeiling == bx.l.MaxRequestBody

\* the ceiling of the unknown-length capture: 4096 when none is configured
BxEffectiveCeiling == IF BxCeiling = 0 THEN maxDefaultUnknownReadable ELSE BxCeiling

\* the message takes the unknown-length path
BxUnknownLength ==
  IF bx.dir = "req" THEN bx.msg.ContentLength <= 0 ELSE bx.msg.ContentLength = -1

BxSkipped == bx.l.bodyFilter \in {"skip", "skipErr"}

BxWhole == Range(0, bx.size)

\* the texts printed that are not diagnostics of the body filter
BxOut == SelectSeq(bx.out, LAMBDA x : x # BodyFilterPanicText /\ x # BodyFilterErrorText(bx.dir))

BxCount(P(_)) == Len(SelectSeq(bx.out, P))

IsTooLongUnknown(x) == x.k = TooLongUnknown(0).k
IsTooLongDeclared(x) == x.k = TooLongDeclared(0, 0).k
HasBytes(x) == x.d # NoBytes

\* C1: after the logger has printed a body, the consumer reads from Body
\* exactly the bytes it would have read with no logger attached (all the
\* bytes of the original stream), for every body and every ceiling.
C1_NonDestructiveCapture ==
  bx.pc = "consumed" /\ bx.l.bodyFilter = "nil" => bx.got = BxWhole

\* C6 as stated: the logger never reads more than max(ceiling, 4096) bytes
\* of a body, whatever the body and the ceiling.
C6_ReadAtMostCeilingOrDefault ==
  bx.pc = "printed" /\ bx.l.bodyFilter = "nil" /\ BxCeiling >= 0 => bx.s.pos <= Max(BxCeiling, maxDefaultUnknownReadable)

\* C6 amended: a body of unknown length is read up to max(ceiling, 4096)
\* bytes at most; a body of declared length is read up to the ceiling at most
\* when the ceiling is positive, and whole when no positive ceiling is set.
C6_CeilingInvariant ==
  bx.pc = "printed" =>
    /\ BxUnknownLength => bx.s.pos <= Max(BxCeiling, maxDefaultUnknownReadable)
    /\ ~BxUnknownLength /\ BxCeiling > 0 => bx.s.pos <= BxCeiling
    /\ ~BxUnknownLength /\ BxCeiling <= 0 /\ ~BxSkipped => bx.s.pos = bx.size

C6_Witness ==
  /\ bx.pc = "printed" /\ BxUnknownLength /\ BxCeiling = 0
  /\ bx.size = 9846 /\ bx.s.pos = maxDefaultUnknownReadable

\* C7: a declared length above a positive ceiling prints the one line
\* '* body is too long (<length> bytes) to print, skipping (longer than
\* <ceiling> bytes)', reads nothing, closes nothing and leaves Body as it
\* was; a declared length equal to the ceiling is captured and printed.
C7_DeclaredOverCeiling ==
  bx.pc = "printed" /\ ~BxSkipped /\ BxCeiling > 0 =>
    /\ bx.msg.ContentLength > BxCeiling =>
         /\ BxOut = <<TooLongDeclared(bx.msg.ContentLength, BxCeiling)>>
         /\ bx.s.pos = 0 /\ bx.s.closed = 0 /\ bx.msg.Body = OriginalBody
    /\ bx.msg.ContentLength = BxCeiling /\ ~bx.s.fail =>
         /\ BxOut = <<BodyText(BxWhole, 0)>>
         /\ bx.s.pos = bx.size

C7_Witness ==
  /\ bx.pc = "printed" /\ bx.msg.ContentLength = 5001 /\ BxCeiling = 5000
  /\ bx.out = <<TooLongDeclared(5001, 5000)>>

\* C8: a body of unknown length, not empty and shorter than the ceiling, is
\* printed whole, without a 'body is too long' line, and Body then yields
\* exactly its bytes, however the stream splits them across Read calls.
C8_UnknownLengthShort ==
  bx.pc = "printed" /\ BxUnknownLength /\ bx.l.bodyFilter = "nil" /\ ~bx.s.fail
    /\ BxCeiling >= 0 /\ 0 < bx.size /\ bx.size < BxEffectiveCeiling =>
    /\ BxCount(IsTooLongUnknown) = 0
    /\ \E i \in 1..Len(bx.out) : bx.out[i].d = BxWhole
    /\ Readable(bx.msg.Body, bx.s) = BxWhole

\* C9: a body of unknown length longer than the ceiling C prints the one
\* line '* body is too long, skipping (contains more than C bytes)', is not
\* printed, and Body becomes the captured prefix followed by the unread
\* remainder of the original stream.
C9_UnknownLengthLong ==
  bx.pc = "printed" /\ BxUnknownLength /\ bx.l.bodyFilter = "nil" /\ ~bx.s.fail
    /\ BxCeiling >= 0 /\ bx.size > BxEffectiveCeiling =>
    /\ bx.out = <<TooLongUnknown(BxEffectiveCeiling)>>
    /\ Readable(bx.msg.Body, bx.s) = BxWhole

-----------------------------------------------------------------------------
(* Claims on one cycle (SpecCycle) *)

\* the writes a cycle has made on the sink, in order
WritesBy(c) == SelectSeq(writes, LAMBDA w : w.by = c)

RECURSIVE Concat(_)
Concat(ws) == IF ws = <<>> THEN <<>> ELSE Head(ws).txt \o Concat(Tail(ws))

\* every text a cycle has written on the sink, in order
Written(c) == Concat(WritesBy(c))

WholeRequest(c) == Range(0, Me(c).start.qs.end)

\* what the caller of the cycle reads from the response it gets
WholeResponse(c) ==
  IF Me(c).tr.resp.present /\ Me(c).tr.resp.Body # NilBody
  THEN Range(0, Me(c).start.rs.end) ELSE NoBytes

\* the request is suppressed: hidden, or skipped by a filter without error
Suppressing(c) == Me(c).req.Hide \/ logger.filter = "skip"

\* C2: a cycle whose request carries the WithHide marker, or whose filter
\* returns skip with a nil error, writes no byte on the sink (whatever the
\* flush strategy and the options), prints nothing, leaves the request and
\* its body unread and as they were, calls the wrapped transport or handler
\* exactly once and returns its result unchanged.
C2_Suppression ==
  \A c \in Cycles :
    Me(c).pc # "idle" /\ Suppressing(c) =>
      /\ Written(c) = <<>> /\ Me(c).printed = <<>> /\ Me(c).fcalls = <<>>
      /\ Me(c).req = Me(c).start.req
      /\ Me(c).calls <= 1
      /\ Me(c).pc \in {"return", "done"} =>
           /\ Me(c).calls = 1
           /\ Me(c).sent = WholeRequest(c)
           /\ Me(c).ret = Me(c).tr.resp
      /\ Me(c).pc = "done" => Me(c).got = WholeResponse(c)

C2_Witness ==
  /\ Me(1).pc = "done" /\ Me(1).suppressed /\ Me(1).calls = 1
  /\ logger.filter = "skip" /\ ~Me(1).req.Hide
  /\ logger.Time /\ logger.TLS /\ logger.RequestBody
  /\ Me(1).p.flusher = "OnEnd" /\ Len(WritesBy(1)) = 1

\* what a cycle prints when no filter is set and nothing hides the request
Transcript(l, me) ==
  LET q == IF me.kind = "out"
           THEN roundTripRequestSide(l, me.p, me.start.req, me.start.qs, me.config)
           ELSE serveRequestSide(l, me.p, me.start.req, me.start.qs)
      r == IF me.kind = "out"
           THEN roundTripResponseSide(l, me.p, q.msg, me.tr.resp, me.tr.err, me.start.rs).ops
           ELSE Prints(printServerResponse(l, responseRecorder(l, me.tr.resp, me.start.rs.end)).out)
  IN PrintedTexts(q.ops \o r \o TimeEnd(l))

FilterFault(filter) == IF filter = "panic" THEN "panic: panic" ELSE "error"

IsCannotFilter(x) == x.k = CannotFilterText("").k

\* C3: when the filter panics or returns an error (whatever skip value
\* comes with it), the request is not suppressed: the cycle prints the one
\* line '* cannot filter request: ...: <fault>' first, and then exactly what
\* it prints when no filter is set; all of it reaches the sink.
C3_FailOpenFilter ==
  \A c \in Cycles :
    Me(c).pc = "done" /\ ~Me(c).req.Hide /\ logger.filter \in {"passErr", "skipErr", "panic"} =>
      /\ ~Me(c).suppressed
      /\ Me(c).printed = <<CannotFilterText(FilterFault(logger.filter))>> \o Transcript(logger, Me(c))
      /\ Len(SelectSeq(Me(c).printed, IsCannotFilter)) = 1
      /\ Written(c) = Me(c).printed

C3_Witness ==
  /\ Me(1).pc = "done" /\ logger.filter = "skipErr" /\ ~Me(1).req.Hide
  /\ logger.RequestHeader /\ Len(Me(1).printed) > 1
  /\ Me(1).printed[1] = CannotFilterText("error")

\* Match accepts the media type
Matches(f, mediatype) ==
  f.match = "yes" \/ (f.match = "json" /\ mediatype = "application/json")

\* the first formatter whose Match accepts the media type, 0 when none does
Selected(fs, mediatype) ==
  IF \E i \in DOMAIN fs : Matches(fs[i], mediatype)
  THEN CHOOSE i \in DOMAIN fs :
         Matches(fs[i], mediatype) /\ \A j \in 1..(i - 1) : ~Matches(fs[j], mediatype)
  ELSE 0

FormatFault(f) == IF f.format = "error" THEN "error" ELSE "panic: panic"

IsCannotFormat(x) == x.k = CannotFormat(NoBytes, "").k
IsBodyText(x) == x.k = BodyText(NoBytes, 0).k
IsFormatCall(x) == x.op = "Format"

-----------------------------------------------------------------------------
(* Claims on concurrent cycles (Spec) *)

\* C4: a cycle whose printer has the OnEnd strategy writes on the sink at
\* most once, in its final flush; that one write is the whole transcript of
\* the cycle and of no other, and a finished cycle has made it, whatever
\* the other cycles and the setters do meanwhile.
C4_OnEndContiguity ==
  \A c \in Cycles :
    Me(c).p.flusher = "OnEnd" =>
      /\ Len(WritesBy(c)) <= 1
      /\ Len(WritesBy(c)) = 1 =>
           /\ Me(c).pc \in {"return", "done"}
           /\ WritesBy(c)[1].txt = Me(c).printed
      /\ Me(c).pc = "done" => Len(WritesBy(c)) = 1

C4_Witness ==
  /\ \A c \in Cycles :
       /\ Me(c).pc = "done" /\ Me(c).p.flusher = "OnEnd"
       /\ Len(Me(c).printed) >= 2 /\ WritesBy(c)[1].txt = Me(c).printed
  /\ Len(writes) = NumCycles
  /\ logger.flusher # "OnEnd"

\* at most one goroutine is inside an operation that holds the mutex
MutualExclusion ==
  /\ \A c \in Cycles : Me(c).held => mu = c
  /\ setter.held => mu = SetterId

\* a step that writes on the sink, that reads the Logger's sink, filter or
\* flush strategy (an operation of a printer), or that sets one of them, is
\* taken by the goroutine that holds the mutex; a write is one call, to the
\* sink set at that moment
LockedStep ==
  /\ writes' # writes =>
       /\ mu \in Cycles
       /\ \E txt \in {writes'[Len(writes')].txt} :
            writes' = Append(writes, [by |-> mu, to |-> getWriter(logger), txt |-> txt])
  /\ logger' # logger => mu = SetterId
  /\ \A c \in Cycles :
       cyc[c].todo # <<>> /\ cyc'[c].todo = Tail(cyc[c].todo) => mu = c

\* C5: under every flush strategy every write on the sink, every read of
\* the Logger's sink, filter and flush strategy and every change made to
\* them by SetOutput, SetFilter and SetFlusher happens while the goroutine
\* holds the Logger's mutex, which one goroutine holds at a time.
C5_LockDiscipline == [](MutualExclusion) /\ [][LockedStep]_vars

C5_Witness ==
  /\ mu = 1 /\ Me(1).held /\ Head(Me(1).todo).op = "flush"
  /\ Me(2).todo # <<>> /\ ~Me(2).held
  /\ setter.left > 0 /\ ~setter.held
  /\ writes # <<>>

-----------------------------------------------------------------------------
(* Claims on formatters and body filters (SpecBody) *)

BxMediaType == ParseMediaType(bx.msg.ContentType)

\* the formatter selected for the body, 0 when none matches
BxSelected == Selected(bx.l.Formatters, BxMediaType)

\* the formatters whose Match is called: up to the selected one, or all
BxConsulted == IF BxSelected = 0 THEN Len(bx.l.Formatters) ELSE BxSelected

\* the body has been read whole and handed to the formatters
BxFormatted ==
  /\ bx.pc = "printed" /\ bx.l.bodyFilter = "nil" /\ bx.l.Formatters # <<>>
  /\ bx.size > 0 /\ ~bx.s.fail /\ bx.s.pos = bx.size

IsMatchPanic(x) == x = MatchPanicText
IsMatchCall(x) == x.op = "Match"

\* the calls of Match made, as the indexes of their formatters
BxMatchCalls ==
  LET ms == SelectSeq(bx.calls, IsMatchCall) IN [k \in 1..Len(ms) |-> ms[k].i]

\* C11: a Match that panics counts as no match: each such Match called for
\* a body prints one '* panic while testing body format' line, the panic
\* goes no further, the formatters after it are still consulted in order,
\* and the raw body is printed when none matches.
C11_MatchFault ==
  BxFormatted =>
    /\ ~bx.panicked
    /\ BxCount(IsMatchPanic)
         = Cardinality({i \in 1..BxConsulted : bx.l.Formatters[i].match = "panic"})
    /\ BxMatchCalls = [k \in 1..BxConsulted |-> k]
    /\ BxSelected = 0 => bx.out[Len(bx.out)] = BodyText(BxWhole, 0)
    /\ \A i \in 1..Len(bx.l.Formatters) :
         bx.l.Formatters[i].match = "panic" => Call("Format", i) \notin {bx.calls[k] : k \in DOMAIN bx.calls}

C11_Witness ==
  /\ BxFormatted /\ bx.msg.ContentType = "application/json"
  /\ bx.l.Formatters = <<[match |-> "panic", format |-> "ok"], [match |-> "json", format |-> "ok"]>>
  /\ bx.out = <<MatchPanicText, BodyText(BxWhole, 2)>>

\* C12: for a printed body Match is called on the formatters in list order
\* up to the first that accepts the media type, Format is called on that
\* one only, and when it succeeds its output is what is printed; when none
\* accepts, Format is never called and the raw body is printed.
C12_FirstMatchWins ==
  BxFormatted =>
    /\ BxMatchCalls = [k \in 1..BxConsulted |-> k]
    /\ SelectSeq(bx.calls, IsFormatCall)
         = IF BxSelected = 0 THEN <<>> ELSE <<Call("Format", BxSelected)>>
    /\ BxSelected # 0 => bx.calls[Len(bx.calls)] = Call("Format", BxSelected)
    /\ BxSelected # 0 /\ bx.l.Formatters[BxSelected].format = "ok" =>
         SelectSeq(bx.out, IsBodyText) = <<BodyText(BxWhole, BxSelected)>>
    /\ BxSelected = 0 => SelectSeq(bx.out, IsBodyText) = <<BodyText(BxWhole, 0)>>

C12_Witness ==
  /\ BxFormatted /\ bx.msg.ContentType = "application/json"
  /\ bx.l.Formatters = <<[match |-> "json", format |-> "ok"], [match |-> "yes", format |-> "ok"]>>
  /\ bx.out = <<BodyText(BxWhole, 1)>>
  /\ bx.calls = <<Call("Match", 1), Call("Format", 1)>>

\* the body filter is called for the body
BxFilterCalled == bx.pc = "printed" /\ (bx.dir = "resp" => bx.msg.ContentLength # 0)

\* what the same capture does on the same message when no body filter is set
BxUnfiltered ==
  LET l == [bx.l EXCEPT !.bodyFilter = "nil"]
      msg == [bx.msg EXCEPT !.Body = OriginalBody]
      s == Stream(bx.size, bx.s.chunk, bx.s.eager, bx.s.fail)
  IN IF bx.dir = "req" THEN printRequestBody(l, msg, s) ELSE printResponseBodyOut(l, msg, s)

\* the capture left what BxUnfiltered leaves, after the line first
BxAsUnfilteredAfter(first) ==
  /\ bx.out = <<first>> \o BxUnfiltered.out
  /\ bx.msg.Body = BxUnfiltered.body /\ bx.s = BxUnfiltered.s
  /\ bx.panicked = BxUnfiltered.panicked

\* C13: a body filter that returns skip together with an error skips the
\* body (nothing is read or closed, Body stays as it was) and the one line
\* '* error on request body filter: <err>' (or '... response ...') is
\* printed in its place; an error without skip prints the same line and
\* then the body as when no body filter is set.
C13_BodyFilterSoftError ==
  BxFilterCalled =>
    /\ bx.l.bodyFilter = "skipErr" =>
         /\ bx.out = <<BodyFilterErrorText(bx.dir)>>
         /\ bx.s.pos = 0 /\ bx.s.closed = 0 /\ bx.msg.Body = OriginalBody
    /\ bx.l.bodyFilter = "keepErr" => BxAsUnfilteredAfter(BodyFilterErrorText(bx.dir))

C13_Witness ==
  /\ BxFilterCalled /\ bx.l.bodyFilter = "skipErr" /\ bx.dir = "resp"
  /\ bx.size = 5000 /\ bx.msg.ContentLength = 5000
  /\ bx.out = <<BodyFilterErrorText("resp")>>

\* C14: a body filter that panics does not stop the cycle and does not skip
\* the body: the one line '* panic while filtering body: <fault>' is
\* printed, and the body is then captured and printed as when no body
\* filter is set.
C14_BodyFilterFault ==
  BxFilterCalled /\ bx.l.bodyFilter = "panic" => BxAsUnfilteredAfter(BodyFilterPanicText)

C14_Witness ==
  /\ BxFilterCalled /\ bx.l.bodyFilter = "panic" /\ bx.dir = "req"
  /\ bx.size = 1000 /\ bx.msg.ContentLength = 1000 /\ BxCeiling = 0
  /\ bx.out = <<BodyFilterPanicText, BodyText(BxWhole, 0)>>

-----------------------------------------------------------------------------
(* Claims on the transcript of one cycle (SpecCycle) *)

\* the request-side texts of an outbound cycle, from its inputs
RequestTexts(c) ==
  PrintedTexts(roundTripRequestSide(logger, Me(c).p, Me(c).start.req, Me(c).start.qs, Me(c).config).ops)

\* the texts of the response as the transport returned it
ResponseTexts(c) ==
  printTLSInfo(Me(c).tr.resp.TLS, FALSE)
  \o printTLSServer(Me(c).start.req.Host, Me(c).tr.resp.TLS)
  \o PrintedTexts(printResponse(logger, Me(c).p, Me(c).tr.resp, Me(c).start.req.Method, Me(c).start.rs).ops)

IsTransportError(x) == x = TransportErrorText

\* C15: when the wrapped RoundTrip returns an error, the one line
\* '* <error text>' is printed after all request-side output and before
\* anything of the response; with a nil response nothing of a response is
\* printed (only the duration line follows when Time is set), with a
\* response it is printed after the error line; either way the caller gets
\* the transport's response and its whole body, and all output reaches the
\* sink.
C15_TransportError ==
  \A c \in Cycles :
    Me(c).pc = "done" /\ Me(c).kind = "out" /\ Me(c).tr.err /\ ~Me(c).suppressed =>
      LET n == Len(RequestTexts(c))
          after == SubSeq(Me(c).printed, n + 2, Len(Me(c).printed))
      IN /\ Len(Me(c).printed) > n
         /\ SubSeq(Me(c).printed, 1, n) = RequestTexts(c)
         /\ Me(c).printed[n + 1] = TransportErrorText
         /\ Len(SelectSeq(Me(c).printed, IsTransportError)) = 1
         /\ after = (IF Me(c).tr.resp.present THEN ResponseTexts(c) ELSE <<>>)
                      \o PrintedTexts(TimeEnd(logger))
         /\ [Me(c).ret EXCEPT !.Body = Me(c).tr.resp.Body] = Me(c).tr.resp
         /\ Me(c).got = WholeResponse(c)
         /\ Me(c).calls = 1
         /\ Written(c) = Me(c).printed

C15_Witness ==
  /\ Me(1).pc = "done" /\ Me(1).kind = "out" /\ Me(1).tr.err /\ Me(1).tr.resp.present
  /\ Me(1).tr.resp.TLS = InsecureTLS /\ logger.TLS /\ Me(1).p.flusher = "OnEnd"
  /\ \E i \in DOMAIN Me(1).printed :
       /\ Me(1).printed[i] = TransportErrorText
       /\ Me(1).printed[i + 1] = Msg("* TLS connection using %s / %s")

\* a line about TLS: the connection, ALPN, a server or client certificate
IsTLSLine(x) ==
  x.k \in {"* TLS connection using %s / %s", " (insecure=true)", "* ALPN: %v accepted",
           "* Server certificate:", "* Client certificate:", CertificateText.k,
           NoCertificateText.k, "*  TLS certificate verify ok.",
           "** unparsed certificate found, skipping"}

\* C16: with Logger.TLS false an outbound cycle prints no '* TLS
\* connection', '* ALPN', '* Server certificate' or '* Client certificate'
\* line, whatever the transport's TLS configuration and the connection
\* state of the response.
C16_TLSGating ==
  \A c \in Cycles :
    Me(c).pc = "done" /\ Me(c).kind = "out" /\ ~logger.TLS /\ ~Me(c).suppressed =>
      SelectSeq(Me(c).printed, IsTLSLine) = <<>>

\* the place of a request-side line in the order of the transcript, 0
\* for the lines that have none
RequestRank(x) ==
  CASE x.k = "* Request to %s" -> 1
    [] x.k = "* Request from %s" -> 2
    [] x.k = RequestAtText.k -> 3
    [] x.k \in {"> %s %s %s", "> %s%s %s", "%c %s%s %s"} -> 4
    [] x.k \in {BodyText(NoBytes, 0).k, CannotFormat(NoBytes, "").k, CannotRead.k,
                TooLongDeclared(0, 0).k, TooLongUnknown(0).k, CannotReadUnknown(0).k} -> 5
    [] OTHER -> 0

\* C17: in a cycle that is not suppressed the request side is printed in
\* this order: '* Request to' (and '* Request from'), then '* Request at'
\* when Time is set, then the request header block, then the request body.
C17_RequestOrder ==
  \A c \in Cycles :
    Me(c).pc = "done" /\ ~Me(c).suppressed =>
      \A i, j \in 1..Me(c).mark :
        i < j /\ RequestRank(Me(c).printed[i]) # 0 /\ RequestRank(Me(c).printed[j]) # 0 =>
          RequestRank(Me(c).printed[i]) <= RequestRank(Me(c).printed[j])

\* the request-side texts of a cycle, from its inputs
RequestSideTexts(c) ==
  IF Me(c).kind = "out" THEN RequestTexts(c)
  ELSE PrintedTexts(serveRequestSide(logger, Me(c).p, Me(c).start.req, Me(c).start.qs).ops)

\* the texts of the response header block and of the response body
ResponseHeaderTexts(c) ==
  IF logger.ResponseHeader
  THEN printResponseHeader(logger, Me(c).tr.resp.Status, Me(c).tr.resp.Header) ELSE <<>>

ResponseBodyTexts(c) ==
  IF Me(c).kind = "out"
  THEN IF logger.ResponseBody /\ Me(c).tr.resp.Body # NilBody /\ Me(c).start.req.Method # "HEAD"
       THEN printResponseBodyOut(logger, Me(c).tr.resp, Me(c).start.rs).out ELSE <<>>
  ELSE IF logger.ResponseBody
       THEN printServerResponse([logger EXCEPT !.ResponseHeader = FALSE],
                                responseRecorder(logger, Me(c).tr.resp, Me(c).start.rs.end)).out
       ELSE <<>>

-----------------------------------------------------------------------------
(* Claims on what a printer keeps from its construction (Spec) *)

\* newPrinter has returned in cycle c
Constructed(c) == ~(Me(c).pc = "start" /\ Me(c).todo # <<>>)

\* the filter check of cycle c is over
FilterChecked(c) == Me(c).pc \in {"request", "call", "return", "done"}

\* C19: the filter applied to a cycle is the filter the Logger had when the
\* cycle's printer was constructed: a SetFilter between newPrinter and the
\* filter check changes neither the filter the check reads nor its decision.
C19_FilterSnapshot ==
  \A c \in Cycles :
    FilterChecked(c) =>
      /\ Me(c).filter = Me(c).built.filter
      /\ Me(c).suppressed = checkFilter(Me(c).built.filter, TRUE).skip

\* C20: a constructed printer keeps the flush strategy the Logger had at
\* its construction, whatever SetFlusher does later: with NoBuffer every
\* text is written on the sink as it is printed; with OnReady or OnEnd a
\* text goes to the printer's own buffer and reaches the sink in a flush;
\* with OnReady the request side is flushed before the wrapped call, with
\* OnEnd the only flush is the final one.
C20_FlusherSnapshot ==
  \A c \in Cycles :
    Constructed(c) =>
      /\ Me(c).p.flusher = Me(c).built.flusher
      /\ Written(c) \o Me(c).p.buf = Me(c).printed
      /\ Me(c).built.flusher = "NoBuffer" =>
           /\ Me(c).p.buf = <<>>
           /\ Len(WritesBy(c)) = Len(Me(c).printed)
      /\ Me(c).built.flusher = "OnReady" =>
           /\ Len(WritesBy(c)) <= 3
           /\ Between(c, "call") /\ Me(c).printed # <<>> => Me(c).p.buf = <<>>
           /\ Me(c).pc = "done" => Me(c).p.buf = <<>>
      /\ Me(c).built.flusher = "OnEnd" =>
           /\ Me(c).pc \notin {"return", "done"} => WritesBy(c) = <<>>
           /\ Me(c).pc = "done" => Len(WritesBy(c)) = 1 /\ Me(c).p.buf = <<>>

\* cycle 1 was constructed under OnEnd, the one call of a setter then set
\* NoBuffer, cycle 2 was constructed and wrote, and cycle 1 flushed last
C20_Witness ==
  /\ Me(1).pc = "done" /\ Me(2).pc = "done"
  /\ Me(1).built.flusher = "OnEnd" /\ Me(2).built.flusher = "NoBuffer"
  /\ logger.flusher = "NoBuffer" /\ setter.left = MaxSets - 1
  /\ Me(1).printed # <<>> /\ Me(2).printed # <<>>
  /\ writes[Len(writes)] = [by |-> 1, to |-> getWriter(logger), txt |-> Me(1).printed]

-----------------------------------------------------------------------------
(* Claims on the closing of the original stream (SpecBody) *)

\* the body is captured on the declared-length path (tee, ReadAll, NopCloser)
BxDeclared ==
  IF bx.dir = "req" THEN bx.msg.ContentLength > 0
  ELSE bx.msg.ContentLength \notin {-1, 0}

\* the capture has read at least one byte of the original stream
BxCaptured == bx.pc \in {"printed", "consumed"} /\ bx.s.pos > 0

-----------------------------------------------------------------------------
(* Claims on the direct print operations and on header blocks (SpecPrint) *)

\* the header of the message of the call, and the prefix of its lines
PxHeader == IF px.op = "PrintRequest" THEN px.req.Header ELSE px.resp.Header
PxPrefix == IF px.op = "PrintRequest" THEN ">" ELSE "<"

\* a header block was printed by the call
PxHeaderPrinted ==
  /\ px.pc = "done" /\ ~px.nil
  /\ IF px.op = "PrintRequest"
     THEN logger.RequestHeader /\ logger.filter \notin {"skip"}
     ELSE logger.ResponseHeader

\* the keys of K in ascending order of their bytes: the key with i - 1
\* smaller keys in K comes i-th
Ascending(K) ==
  [i \in 1..Cardinality(K) |->
     CHOOSE k \in K : Cardinality({k2 \in K : StringLess(k2, k)}) = i - 1]

\* the value of a header as it is shown
ShownValues(key) ==
  IF ~logger.SkipSanitize /\ key = "Authorization"
  THEN [i \in DOMAIN HeaderValues(PxHeader, key) |-> "<masked>"]
  ELSE HeaderValues(PxHeader, key)

RECURSIVE LinesOfKeys(_)
LinesOfKeys(keys) ==
  IF keys = <<>> THEN <<>>
  ELSE [i \in DOMAIN ShownValues(Head(keys)) |-> HeaderText(PxPrefix, Head(keys), ShownValues(Head(keys))[i])]
       \o LinesOfKeys(Tail(keys))

\* the header block that shows the keys of K
BlockOf(K) ==
  (IF px.op = "PrintRequest"
   THEN <<Text("> %s %s %s", 0, 0, NoBytes, px.req.Method)>>
        \o (IF px.req.Host # "" THEN <<Text("> %s%s %s", 0, 0, NoBytes, "Host: " \o px.req.Host)>>
            ELSE <<>>)
   ELSE <<Text("< %s %s", 0, 0, NoBytes, px.resp.Status)>>)
  \o LinesOfKeys(Ascending(K)) \o <<NewLine>>

PxKeys == {PxHeader[i].key : i \in DOMAIN PxHeader}

\* the texts of the call after those of the filter check
PxAfterFilter ==
  IF px.out # <<>> /\ IsCannotFilter(px.out[1]) THEN Tail(px.out) ELSE px.out

\* the call printed the header block that shows the keys of K, first
StartsWithBlockOf(K) ==
  /\ Len(PxAfterFilter) >= Len(BlockOf(K))
  /\ SubSeq(PxAfterFilter, 1, Len(BlockOf(K))) = BlockOf(K)

\* C22: a printed header block is the request line or the status line,
\* then for a request the Host line, then the lines of the headers shown,
\* key after key in ascending order of the bytes of the key, the values of
\* one key on consecutive lines in their order in the header; the order in
\* which the map yields its keys does not matter.
C22_HeaderOrder ==
  PxHeaderPrinted =>
    \E K \in SUBSET PxKeys :
      /\ \A k \in PxKeys \ K : k \in logger.skipHeader
      /\ StartsWithBlockOf(K)

\* the map yields accept-encoding, then User-Agent, then Accept with two
\* values; the block shows Accept (both values, in their order), User-Agent
\* and accept-encoding
C22_Witness ==
  /\ px.pc = "done" /\ px.op = "PrintRequest" /\ ~px.nil /\ logger.skipHeader = {}
  /\ px.req.Header = <<HeaderEntry("accept-encoding", <<"gzip">>),
                       HeaderEntry("User-Agent", <<"Robot/0.1 crawler@example.com">>),
                       HeaderEntry("Accept", <<"text/plain", "*/*">>)>>
  /\ px.out = <<Text("> %s %s %s", 0, 0, NoBytes, "GET"),
                Text("> %s%s %s", 0, 0, NoBytes, "Host: example.com"),
                HeaderText(">", "Accept", "text/plain"),
                HeaderText(">", "Accept", "*/*"),
                HeaderText(">", "User-Agent", "Robot/0.1 crawler@example.com"),
                HeaderText(">", "accept-encoding", "gzip"),
                NewLine>>
  /\ Len(writes) = 7

\* the keys of the header that no name registered with SkipHeader matches
PxKeysNotSkipped == {k \in PxKeys : k \notin logger.skipHeader}

\* C23: a header whose name was registered with Logger.SkipHeader, in any
\* letter case, is left out of the request and of the response header
\* block, and every other header is printed.
C23_SkippedHeaders ==
  PxHeaderPrinted => StartsWithBlockOf(PxKeysNotSkipped)

-----------------------------------------------------------------------------
(* Claims on the JSON formatter (SpecBody) *)

\* application/json, or a media type with the structured suffix +json
IsJSONMediaType(mediatype) == mediatype \in {"application/json", "application/vnd.api+json"}

\* C24: with the JSONFormatter first in Logger.Formatters, a body whose
\* media type is application/json or has the suffix +json (such as
\* application/vnd.api+json) is printed as the formatter re-indents it, and
\* a body of another media type (text/plain) is not given to its Format.
C24_JSONMatch ==
  BxFormatted /\ bx.l.Formatters[1] = [match |-> "json", format |-> "ok"] =>
    IF IsJSONMediaType(BxMediaType)
    THEN /\ bx.calls = <<Call("Match", 1), Call("Format", 1)>>
         /\ bx.out = <<BodyText(BxWhole, 1)>>
    ELSE Call("Format", 1) \notin {bx.calls[i] : i \in DOMAIN bx.calls}

\* C25: PrintRequest(nil) writes the one line '> error: null request' and
\* PrintResponse(nil) the one line '< error: null response'; nothing else
\* is written, the filter is not run and the call does not panic, whatever
\* the options, the filter and the flush strategy of the Logger.
C25_NullInput ==
  px.pc = "done" /\ px.nil =>
    /\ px.out = <<IF px.op = "PrintRequest" THEN NullRequestText ELSE NullResponseText>>
    /\ writes = <<[by |-> 0, to |-> getWriter(logger), txt |-> px.out]>>
    /\ ~px.called
    /\ ~px.panicked

\* PrintRequest(nil) on a Logger with every option set, a flush strategy
\* that buffers and a filter that would panic
C25_Witness ==
  /\ px.pc = "done" /\ px.nil /\ px.op = "PrintRequest"
  /\ logger.filter = "panic" /\ logger.RequestHeader /\ logger.flusher = "OnEnd"
  /\ Len(writes) = 1 /\ writes[1].txt = <<NullRequestText>>

-----------------------------------------------------------------------------
(* Claims on what the mutex covers (Spec) *)

\* the mutex is held inside one operation of a printer (a read of the
\* Logger's filter or flush strategy, a print, a flush) or inside a setter
HeldInsideOperation ==
  /\ \A c \in Cycles :
       mu = c => /\ Me(c).held /\ Me(c).todo # <<>>
                 /\ Head(Me(c).todo).op \in {"newPrinter", "getFilter", "print", "flush"}
  /\ mu = SetterId => setter.held

\* cycle c runs the filter, reads a body and runs the body filter and the
\* formatters, calls the wrapped transport or handler, or returns
WorksUnlocked(c) ==
  \/ cyc'[c].pc # cyc[c].pc
  \/ cyc'[c].calls # cyc[c].calls
  \/ cyc'[c].fcalls # cyc[c].fcalls
  \/ cyc'[c].qs # cyc[c].qs \/ cyc'[c].rs # cyc[c].rs

\* such a step is taken by a cycle that does not hold the mutex and leaves
\* the mutex as it is; the step that ends an operation releases the mutex
ReleasedOutsideOperations ==
  \A c \in Cycles :
    /\ WorksUnlocked(c) => mu # c /\ ~cyc[c].held /\ mu' = mu
    /\ mu = c /\ cyc'[c] # cyc[c] => mu' = 0 /\ ~cyc'[c].held

\* the goroutine that holds the mutex can take the step that releases it:
\* no operation waits for the mutex while it holds it
HolderCanRelease ==
  /\ \A c \in Cycles :
       mu = c => ENABLED (NewPrinter(c) \/ GetFilter(c) \/ PrinterPrint(c) \/ Flush(c))
  /\ mu = SetterId => ENABLED (SetFilter \/ SetOutput \/ SetFlusher)

\* C26: the mutex is held only while a printer reads the Logger's filter or
\* flush strategy, prints or flushes, and while a setter runs; it is released
\* when the operation ends, and it is not held by a cycle that runs the
\* filter, reads a body, runs the body filter or a formatter, or is inside
\* the wrapped transport or handler, so that whoever holds the mutex can
\* always go on and release it.
C26_LockScope ==
  [](HeldInsideOperation /\ HolderCanRelease) /\ [][ReleasedOutsideOperations]_vars

\* cycle 1 is about to run a filter and cycle 2, whose body was read and
\* formatted, is inside a print with the mutex
C26_Witness ==
  /\ Between(1, "filter") /\ Me(1).filter = "skip"
  /\ mu = 2 /\ Me(2).held /\ Head(Me(2).todo).op = "print"
  /\ Me(2).fcalls # <<>> /\ Me(2).qs.pos > 0

-----------------------------------------------------------------------------
(* Claims on the flushes of a cycle (SpecCycle) *)

\* cycle c, whose printer has the OnReady strategy, is about to call the
\* wrapped transport or handler
OnReadyBeforeCall(c) ==
  Me(c).p.flusher = "OnReady" /\ Between(c, "call") /\ Me(c).calls = 0

\* printRequest printed a header block or a body, and flushed after it
RequestSectionPrinted(c) ==
  ~Me(c).suppressed
  /\ (logger.RequestHeader \/ (logger.RequestBody /\ Me(c).start.req.Body # NilBody))

\* C27 as stated: with OnReady and whatever the options, everything printed
\* on the request side is on the sink, and the buffer is empty, when the
\* wrapped transport or handler is called.
C27_AllFlushedBeforeCall ==
  \A c \in Cycles :
    OnReadyBeforeCall(c) => Me(c).p.buf = <<>> /\ Written(c) = Me(c).printed

\* C27: with OnReady, when the request header block or the request body is
\* printed, everything printed on the request side is on the sink and the
\* buffer is empty when the wrapped transport or handler is called; when
\* neither is printed, the lines printed before them (a filter's error,
\* timestamp, info lines, TLS lines) are still in the buffer and nothing is
\* on the sink at that moment; they reach the sink by the end of the cycle.
C27_SectionsFlushedBeforeCall ==
  \A c \in Cycles :
    /\ OnReadyBeforeCall(c) =>
         IF RequestSectionPrinted(c)
         THEN Me(c).p.buf = <<>> /\ Written(c) = Me(c).printed
         ELSE Me(c).p.buf = Me(c).printed /\ Written(c) = <<>>
    /\ Me(c).p.flusher = "OnReady" /\ Me(c).pc = "done" =>
         Me(c).p.buf = <<>> /\ Written(c) = Me(c).printed

\* only a body is printed on the request side, after info lines, and all of
\* it is on the sink before the call
C27_Witness ==
  /\ OnReadyBeforeCall(1) /\ ~logger.RequestHeader /\ logger.RequestBody
  /\ ~logger.SkipRequestInfo
  /\ Len(Me(1).printed) >= 2 /\ Written(1) = Me(1).printed /\ Me(1).p.buf = <<>>

\* info lines only: they wait in the buffer during the call
C27_Buffered ==
  /\ OnReadyBeforeCall(1) /\ ~RequestSectionPrinted(1)
  /\ Me(1).printed # <<>> /\ Me(1).p.buf = Me(1).printed /\ Written(1) = <<>>

\* what cycle c has written and what its buffer holds is what it printed
Conserved(c) == Written(c) \o Me(c).p.buf = Me(c).printed

\* the cycle is over: it returned, or a panic left it after the deferred flush
Over(c) == Me(c).pc \in {"done", "panicked"}

\* a write of a buffering printer is its whole buffer, which is then empty;
\* a write of a printer that does not buffer is the one text just printed
WriteStep ==
  \A c \in Cycles :
    writes' # writes /\ mu = c =>
      \E w \in {writes'[Len(writes')]} :
        /\ writes' = Append(writes, w) /\ w.by = c
        /\ IF cyc[c].p.flusher = "NoBuffer"
           THEN /\ cyc'[c].printed = cyc[c].printed \o w.txt /\ Len(w.txt) = 1
                /\ cyc'[c].p.buf = <<>>
           ELSE /\ w.txt = cyc[c].p.buf /\ cyc'[c].p.buf = <<>>
                /\ cyc'[c].printed = cyc[c].printed

\* C28: under NoBuffer, OnReady and OnEnd, with one sink, what a cycle has
\* written on the sink followed by what its buffer holds is at every moment
\* what it has printed, in print order; a flush writes the buffer and resets
\* it; when the cycle is over the buffer is empty and the concatenation of
\* its writes is the concatenation of the texts it printed.
C28_OutputConservation ==
  /\ [](\A c \in Cycles :
          /\ Conserved(c)
          /\ Over(c) => Me(c).p.buf = <<>> /\ Written(c) = Me(c).printed
          /\ \A i \in DOMAIN writes : writes[i].to = getWriter(logger))
  /\ [][WriteStep]_vars

\* a cycle with every option on and OnReady is over after four flushes
C28_Witness ==
  /\ Me(1).pc = "done" /\ Me(1).p.flusher = "OnReady"
  /\ Len(WritesBy(1)) >= 4 /\ Len(Me(1).printed) > Len(WritesBy(1))
  /\ Written(1) = Me(1).printed /\ Me(1).p.buf = <<>>

-----------------------------------------------------------------------------
(* Claims on the unknown-length capture and its ceiling (SpecBody) *)

\* the bytes the capture has pulled from the original stream, and those
\* still unread in it
BxPulled == Range(0, bx.s.pos)
BxRemainder == Range(bx.s.pos, bx.s.end)

\* C29: on the unknown-length path, for every ceiling, once the capture has
\* pulled bytes from the original stream the new Body yields every pulled
\* byte, those read ahead by the buffered reader included, in order and
\* once, followed by the bytes still unread in the original stream.
C29_NoPulledByteDropped ==
  bx.pc = "printed" /\ BxUnknownLength /\ bx.s.pos > 0 /\ ~bx.s.fail =>
    Readable(bx.msg.Body, bx.s) = Cat(BxPulled, BxRemainder)

\* the size of the capture buffer the claim gives: the ceiling when it is
\* positive, 4096 otherwise
BxBufferSize == IF BxCeiling > 0 THEN BxCeiling ELSE maxDefaultUnknownReadable

\* C30: for every ceiling, negative ones included, printing a body of
\* unknown length ends without a runtime panic, the capture hands over at
\* most as many bytes as its buffer holds (the ceiling when positive, 4096
\* otherwise), and the message goes on to its consumer.
C30_CeilingRobustness ==
  bx.pc \in {"printed", "consumed"} /\ BxUnknownLength /\ ~BxSkipped =>
    /\ ~bx.panicked
    /\ Size(bx.msg.Body.mem) <= BxBufferSize

====
